---- MODULE Spec2Model ----
(***************************************************************************)
(* Catalog backend: the relational store of Category / Product rows, the   *)
(* "products" search index kept by the post_save / post_delete signal      *)
(* handlers of catalog/models.py, the populate_es full rebuild, and the    *)
(* search / suggest read endpoints of catalog/views.py.                    *)
(*                                                                         *)
(* The search engine is an external collaborator: a call to it succeeds,   *)
(* or fails because the engine is unreachable (engineUp = FALSE) or        *)
(* because the engine rejects that one document (an input of the action).  *)
(* Rows are written in autocommit mode (Django's default): post_save runs  *)
(* after the row is stored, post_delete runs inside the delete's           *)
(* transaction.                                                            *)
(***************************************************************************)
EXTENDS Integers, Sequences, FiniteSets, TLC

\* ---------------------------------------------------------------- bounds
MaxCategories == 2
MaxProducts == 2

CategoryNames == {"c1", "c2", "c3"}
ProductNames == {"n1"}
Prices == {10}

VARIABLES
    live,           \* 'test' not in sys.argv: fixed for the life of the process
    engineUp,       \* the search engine answers
    categories,     \* Category rows: id -> name
    products,       \* Product rows: id -> [category, name, price]
    nextCategoryId, \* auto-increment primary keys, never reused
    nextProductId,
    indexExists,    \* the "products" index exists in the engine
    index,          \* SearchDocuments: id -> document
    last,           \* outcome of the last write-path operation
    cmd,            \* the populate_es run
    syncFailed,     \* history: some engine call of the write path has failed
    writers,        \* writes in flight: row stored, post_save still to run
    wait,           \* the wait_for_db run
    resp            \* the response to the last search or suggest request

vars == <<live, engineUp, categories, products, nextCategoryId, nextProductId,
          indexExists, index, last, cmd, syncFailed, writers, wait, resp>>

store == <<categories, products, nextCategoryId, nextProductId>>
engine == <<indexExists, index>>

\* ------------------------------------------------------------- helpers
Restrict(f, S) == [x \in S |-> f[x]]

Put(f, k, v) == [x \in DOMAIN f \cup {k} |-> IF x = k THEN v ELSE f[x]]

\* All orders in which the rows of S can be streamed (an unordered queryset).
Orders(S) ==
    {s \in [1..Cardinality(S) -> S] : \A i, j \in DOMAIN s : i # j => s[i] # s[j]}

ProductsOf(prods, c) == {p \in DOMAIN prods : prods[p].category = c}

\* ProductDocument: the projection of a Product and its Category.  The
\* completion field "suggest" has no attr and no prepare_suggest, and a
\* Product has no attribute of that name: its value is None for every
\* Product, so the document carries no completion input.
Prepare(p, cats) ==
    [name          |-> p.name,
     description   |-> p.description,
     price         |-> p.price,
     category_id   |-> p.category,
     category_name |-> cats[p.category],
     suggest       |-> <<>>]

NoOp == [op |-> "none", id |-> 0, raised |-> FALSE, engineFailed |-> FALSE,
         attempted |-> {}, notFound |-> FALSE]

IdleCmd == [pc |-> "idle", queue |-> <<>>, snap |-> <<>>, streamed |-> 0,
            indexed_count |-> 0, errors |-> 0, attempts |-> <<>>,
            calls |-> <<>>, missing |-> FALSE, report |-> <<>>]

Running == cmd.pc # "idle"

\* validated_data of a request that has not been validated.
NoData == [q |-> "", category |-> <<>>, price_min |-> <<>>, price_max |-> <<>>,
           sort |-> "", page |-> 0, page_size |-> 0]

NoResp == [op |-> "none", request |-> <<>>, status |-> 0, errors |-> {},
           validated |-> NoData, engineQueries |-> 0,
           q |-> "", count |-> 0, page |-> 0, page_size |-> 0,
           has_next |-> FALSE, has_prev |-> FALSE, results |-> <<>>,
           options |-> <<>>, size |-> 0,
           answer |-> [total |-> [int |-> 0], hits |-> <<>>]]

\* A process that writes a Product: idle, or between the row's write and
\* the post_save receiver, with the instance it holds in memory.
MaxWriters == 2
Writers == 1..MaxWriters
NoRow == [category |-> 0, name |-> "", price |-> 0, description |-> ""]
NoWriters == [w \in Writers |-> [pc |-> "idle", id |-> 0, row |-> NoRow]]

\* wait_for_db: not started.
NoWait == [pc |-> "idle", attempt |-> 0, tried |-> 0, failed |-> 0,
           caught |-> "none", delay |-> 0, delays |-> <<>>, raised |-> "none"]

Init ==
    /\ live \in BOOLEAN
    /\ engineUp = TRUE
    /\ categories = <<>>
    /\ products = <<>>
    /\ nextCategoryId = 1
    /\ nextProductId = 1
    /\ indexExists = FALSE
    /\ index = <<>>
    /\ last = NoOp
    /\ cmd = IdleCmd
    /\ syncFailed = FALSE
    /\ writers = NoWriters
    /\ wait = NoWait
    /\ resp = NoResp

\* The engine becomes unreachable, or reachable again.
EngineFlip ==
    /\ engineUp' = ~engineUp
    /\ UNCHANGED <<live, writers, wait, resp, store, engine, last, cmd, syncFailed>>

\* ------------------------------------------------------ engine, by id
\* Upsert-by-id and delete-by-id of the engine; deleting an absent id is a
\* "not found" item, which raise_on_error=False does not raise.
UpsertDoc(idx, id, doc) == Put(idx, id, doc)

DeleteDocKept(idx, id) == idx

DeleteDoc(idx, id) == Restrict(idx, DOMAIN idx \ {id})

\* The deletes of a cascade, one post_delete per collected row, by pk.
RECURSIVE DeleteAll(_, _)
DeleteAll(idx, ids) ==
    IF ids = {} THEN idx
    ELSE LET p == CHOOSE x \in ids : \A y \in ids : x <= y
         IN  DeleteAll(DeleteDoc(idx, p), ids \ {p})

\* The receivers exist only when 'test' is not in sys.argv.
SignalsRegistered == live

\* ProductDocument.update / ProductDocument.delete return None in test mode.
DocumentSkips == ~live

\* ProductDocument.update(thing), which registry.update(instance) calls: a
\* no-op in test mode, else the engine's upsert.  ok says that the engine
\* took the document; a failure is raised to the caller.
DocumentUpdate(idx, exists, id, doc, ok) ==
    IF DocumentSkips
    THEN [index |-> idx, exists |-> exists, raised |-> FALSE, called |-> FALSE]
    ELSE IF ok
    THEN [index |-> UpsertDoc(idx, id, doc), exists |-> TRUE,
          raised |-> FALSE, called |-> TRUE]
    ELSE [index |-> idx, exists |-> exists, raised |-> TRUE, called |-> TRUE]

\* index_product: the post_save receiver of Product.
index_product_on_create_only(idx, exists, id, doc, ok) ==
    IF SignalsRegistered /\ id \notin DOMAIN idx
    THEN DocumentUpdate(idx, exists, id, doc, ok)
    ELSE [index |-> idx, exists |-> exists, raised |-> FALSE, called |-> FALSE]

index_product(idx, exists, id, doc, ok) ==
    IF SignalsRegistered
    THEN DocumentUpdate(idx, exists, id, doc, ok)
    ELSE [index |-> idx, exists |-> exists, raised |-> FALSE, called |-> FALSE]

\* delete_product: the post_delete receiver of Product,
\* registry.delete(instance, raise_on_error=False).  An unreachable engine
\* still raises (a transport error is not a per-document error).
delete_product_strict(idx, id) ==
    IF ~SignalsRegistered \/ DocumentSkips
    THEN [index |-> idx, raised |-> FALSE, called |-> FALSE]
    ELSE IF engineUp /\ id \in DOMAIN idx
    THEN [index |-> DeleteDoc(idx, id), raised |-> FALSE, called |-> TRUE]
    ELSE [index |-> idx, raised |-> TRUE, called |-> TRUE]

delete_product(idx, id) ==
    IF ~SignalsRegistered \/ DocumentSkips
    THEN [index |-> idx, raised |-> FALSE, called |-> FALSE]
    ELSE IF engineUp
    THEN [index |-> DeleteDoc(idx, id), raised |-> FALSE, called |-> TRUE]
    ELSE [index |-> idx, raised |-> TRUE, called |-> TRUE]

\* Position of the first call that fails when the rows of order are sent
\* one after the other; 0 when none fails.
FirstFail(order, rejected) ==
    LET F == {i \in DOMAIN order : ~engineUp \/ order[i] \in rejected}
    IN  IF F = {} THEN 0 ELSE CHOOSE i \in F : \A j \in F : i <= j

\* update_products_on_category_change: the post_save receiver of Category,
\* a plain loop of registry.update(product); the first failure leaves it.
update_products_skipped(idx, exists, order, prods, cats, rejected) ==
    [index |-> idx, exists |-> exists, raised |-> FALSE, attempted |-> {}]

update_products_on_category_change(idx, exists, order, prods, cats, rejected) ==
    IF ~SignalsRegistered \/ DocumentSkips
    THEN [index |-> idx, exists |-> exists, raised |-> FALSE, attempted |-> {}]
    ELSE LET k    == FirstFail(order, rejected)
             n    == Len(order)
             done == {order[i] : i \in 1..(IF k = 0 THEN n ELSE k - 1)}
             tried == {order[i] : i \in 1..(IF k = 0 THEN n ELSE k)}
         IN  [index |-> [x \in DOMAIN idx \cup done |->
                            IF x \in done THEN Prepare(prods[x], cats)
                                          ELSE idx[x]],
              exists |-> exists \/ done # {},
              raised |-> k # 0,
              attempted |-> tried]

\* ------------------------------------------------------- write path
\* Product.save() of a new row: the row is stored, then post_save runs.
ProductCreate(c, n, pr, accepted) ==
    /\ nextProductId <= MaxProducts
    /\ c \in DOMAIN categories
    /\ LET id  == nextProductId
           row == [category |-> c, name |-> n, price |-> pr, description |-> ""]
           r   == index_product(index, indexExists, id,
                                Prepare(row, categories), engineUp /\ accepted)
       IN  /\ products' = Put(products, id, row)
           /\ nextProductId' = id + 1
           /\ index' = r.index
           /\ indexExists' = r.exists
           /\ last' = [op |-> "product_create", id |-> id, raised |-> r.raised,
                       engineFailed |-> r.raised,
                       attempted |-> IF r.called THEN {id} ELSE {},
                       notFound |-> FALSE]
           /\ syncFailed' = (syncFailed \/ r.raised)
    /\ UNCHANGED <<live, writers, wait, resp, engineUp, categories, nextCategoryId, cmd>>

\* Product.save() of an existing row.
ProductUpdate(id, c, n, pr, accepted) ==
    /\ id \in DOMAIN products
    /\ c \in DOMAIN categories
    /\ LET row == [category |-> c, name |-> n, price |-> pr, description |-> ""]
           r   == index_product(index, indexExists, id,
                                Prepare(row, categories), engineUp /\ accepted)
       IN  /\ products' = Put(products, id, row)
           /\ index' = r.index
           /\ indexExists' = r.exists
           /\ last' = [op |-> "product_update", id |-> id, raised |-> r.raised,
                       engineFailed |-> r.raised,
                       attempted |-> IF r.called THEN {id} ELSE {},
                       notFound |-> FALSE]
           /\ syncFailed' = (syncFailed \/ r.raised)
    /\ UNCHANGED <<live, writers, wait, resp, engineUp, categories, nextCategoryId, nextProductId, cmd>>

\* Product.delete(): post_delete runs inside the delete's transaction, so a
\* raising receiver rolls the row's deletion back.
ProductDelete(id) ==
    /\ id \in DOMAIN products
    /\ LET r == delete_product(index, id)
       IN  /\ products' = IF r.raised THEN products
                          ELSE Restrict(products, DOMAIN products \ {id})
           /\ index' = r.index
           /\ last' = [op |-> "product_delete", id |-> id, raised |-> r.raised,
                       engineFailed |-> r.raised,
                       attempted |-> IF r.called THEN {id} ELSE {},
                       notFound |-> r.called /\ ~r.raised /\ id \notin DOMAIN index]
           /\ syncFailed' = (syncFailed \/ r.raised)
    /\ UNCHANGED <<live, writers, wait, resp, engineUp, categories, nextCategoryId, nextProductId,
                   indexExists, cmd>>

\* Category.save() of a new row; name is unique.  The receiver loops over
\* the products of the new category: there are none.
CategoryCreate(n) ==
    /\ nextCategoryId <= MaxCategories
    /\ \A c \in DOMAIN categories : categories[c] # n
    /\ LET id   == nextCategoryId
           cats == Put(categories, id, n)
           r    == update_products_on_category_change(
                       index, indexExists, <<>>, products, cats, {})
       IN  /\ categories' = cats
           /\ nextCategoryId' = id + 1
           /\ index' = r.index
           /\ indexExists' = r.exists
           /\ last' = [op |-> "category_create", id |-> id, raised |-> r.raised,
                       engineFailed |-> r.raised, attempted |-> r.attempted,
                       notFound |-> FALSE]
           /\ syncFailed' = (syncFailed \/ r.raised)
    /\ UNCHANGED <<live, writers, wait, resp, engineUp, products, nextProductId, cmd>>

\* Category.save() of an existing row, then the fan-out over its products
\* in the order the unordered queryset yields them.
CategoryUpdate(c, n, order, rejected) ==
    /\ c \in DOMAIN categories
    /\ \A d \in DOMAIN categories \ {c} : categories[d] # n
    /\ order \in Orders(ProductsOf(products, c))
    /\ rejected \subseteq ProductsOf(products, c)
    /\ LET cats == Put(categories, c, n)
           r    == update_products_on_category_change(
                       index, indexExists, order, products, cats, rejected)
       IN  /\ categories' = cats
           /\ index' = r.index
           /\ indexExists' = r.exists
           /\ last' = [op |-> "category_update", id |-> c, raised |-> r.raised,
                       engineFailed |-> r.raised, attempted |-> r.attempted,
                       notFound |-> FALSE]
           /\ syncFailed' = (syncFailed \/ r.raised)
    /\ UNCHANGED <<live, writers, wait, resp, engineUp, products, nextCategoryId, nextProductId, cmd>>

\* Category.delete(): on_delete=CASCADE collects the category's products;
\* each gets its post_delete inside the one transaction of the delete.
CategoryDelete(c) ==
    /\ c \in DOMAIN categories
    /\ LET gone   == ProductsOf(products, c)
           called == SignalsRegistered /\ ~DocumentSkips /\ gone # {}
           raised == called /\ ~engineUp
       IN  /\ categories' = IF raised THEN categories
                            ELSE Restrict(categories, DOMAIN categories \ {c})
           /\ products' = IF raised THEN products
                          ELSE Restrict(products, DOMAIN products \ gone)
           /\ index' = IF called /\ ~raised
                       THEN DeleteAll(index, gone) ELSE index
           /\ last' = [op |-> "category_delete", id |-> c, raised |-> raised,
                       engineFailed |-> raised,
                       attempted |-> IF ~called THEN {}
                                     ELSE IF raised
                                     THEN {CHOOSE p \in gone : \A q \in gone : p <= q}
                                     ELSE gone,
                       notFound |-> called /\ ~raised
                                    /\ ~(gone \subseteq DOMAIN index)]
           /\ syncFailed' = (syncFailed \/ raised)
    /\ UNCHANGED <<live, writers, wait, resp, engineUp, nextCategoryId, nextProductId, indexExists, cmd>>

\* ------------------------------------------------- populate_es
CmdOp == [op |-> "populate_es", id |-> 0, raised |-> FALSE,
          engineFailed |-> FALSE, attempted |-> {}, notFound |-> FALSE]

CmdStartAtFetch ==
    /\ cmd.pc = "idle"
    /\ cmd' = [IdleCmd EXCEPT !.pc = "fetch"]
    /\ last' = CmdOp
    /\ UNCHANGED <<live, writers, wait, resp, engineUp, store, engine, syncFailed>>

\* The operator starts `manage.py populate_es`.
CmdStart ==
    /\ cmd.pc = "idle"
    /\ cmd' = [IdleCmd EXCEPT !.pc = "delete_index"]
    /\ last' = CmdOp
    /\ UNCHANGED <<live, writers, wait, resp, engineUp, store, engine, syncFailed>>

\* ProductDocument._index.delete(ignore=404): a missing index is no error;
\* an unreachable engine ends the command with the exception.
CmdDeleteIndex ==
    /\ cmd.pc = "delete_index"
    /\ IF engineUp
       THEN /\ index' = <<>>
            /\ indexExists' = FALSE
            /\ cmd' = [cmd EXCEPT !.pc = "create_index",
                                  !.calls = Append(@, "delete_index"),
                                  !.missing = ~indexExists]
            /\ UNCHANGED <<last, syncFailed>>
       ELSE /\ cmd' = [cmd EXCEPT !.pc = "failed",
                                  !.calls = Append(@, "delete_index")]
            /\ last' = [last EXCEPT !.raised = TRUE, !.engineFailed = TRUE]
            /\ syncFailed' = TRUE
            /\ UNCHANGED engine
    /\ UNCHANGED <<live, writers, wait, resp, engineUp, store>>

\* ProductDocument._index.create(): raises when the engine is unreachable
\* or the index is already there.
CmdCreateIndex ==
    /\ cmd.pc = "create_index"
    /\ IF engineUp /\ ~indexExists
       THEN /\ indexExists' = TRUE
            /\ cmd' = [cmd EXCEPT !.pc = "fetch",
                                  !.calls = Append(@, "create_index")]
            /\ UNCHANGED <<last, syncFailed>>
       ELSE /\ cmd' = [cmd EXCEPT !.pc = "failed",
                                  !.calls = Append(@, "create_index")]
            /\ last' = [last EXCEPT !.raised = TRUE, !.engineFailed = TRUE]
            /\ syncFailed' = TRUE
            /\ UNCHANGED indexExists
    /\ UNCHANGED <<live, writers, wait, resp, engineUp, store, index>>

\* Product.objects.select_related('category').all(), evaluated when the for
\* loop starts: the rows with their categories joined, in the order the
\* unordered queryset yields them.
CmdFetch(order) ==
    /\ cmd.pc = "fetch"
    /\ order \in Orders(DOMAIN products)
    /\ cmd' = [cmd EXCEPT !.pc = IF order = <<>> THEN "report" ELSE "loop",
                          !.queue = order,
                          !.snap = [p \in DOMAIN products |->
                                       Prepare(products[p], categories)],
                          !.streamed = Len(order)]
    /\ UNCHANGED <<live, writers, wait, resp, engineUp, store, engine, last, syncFailed>>

\* Where the loop goes after one product: except Exception prints the error
\* and the for loop takes the next product.
AfterAttemptAbort(rest, raised) ==
    IF raised \/ rest = <<>> THEN "report" ELSE "loop"

AfterAttempt(rest, raised) ==
    IF rest = <<>> THEN "report" ELSE "loop"

\* One turn of the loop: ProductDocument().update(product) inside try.
CmdIndexOne(accepted) ==
    /\ cmd.pc = "loop"
    /\ LET id == Head(cmd.queue)
           r  == DocumentUpdate(index, indexExists, id, cmd.snap[id],
                                engineUp /\ accepted)
           rest == Tail(cmd.queue)
       IN  /\ index' = r.index
           /\ indexExists' = r.exists
           /\ cmd' = [cmd EXCEPT
                        !.pc = AfterAttempt(rest, r.raised),
                        !.queue = rest,
                        !.indexed_count = IF r.raised THEN @ ELSE @ + 1,
                        !.errors = IF r.raised THEN @ + 1 ELSE @,
                        !.attempts = Append(@, id),
                        !.calls = IF r.called THEN Append(@, "upsert") ELSE @]
           /\ last' = [last EXCEPT !.engineFailed = @ \/ r.raised,
                                   !.attempted = @ \cup {id}]
           /\ syncFailed' = (syncFailed \/ r.raised)
    /\ UNCHANGED <<live, writers, wait, resp, engineUp, store>>

\* The final lines: "Successfully indexed N products", and the note with
\* products.count() - N when N is smaller than products.count().
CmdReport ==
    /\ cmd.pc = "report"
    /\ LET count == Cardinality(DOMAIN products)
       IN  cmd' = [cmd EXCEPT
                     !.pc = "done",
                     !.report = [indexed |-> cmd.indexed_count,
                                 noted   |-> cmd.indexed_count < count,
                                 failed  |-> count - cmd.indexed_count]]
    /\ UNCHANGED <<live, writers, wait, resp, engineUp, store, engine, last, syncFailed>>

\* The command's process ends.
CmdExit ==
    /\ cmd.pc \in {"done", "failed"}
    /\ cmd' = IdleCmd
    /\ UNCHANGED <<live, writers, wait, resp, engineUp, store, engine, last, syncFailed>>

Next ==
    \/ EngineFlip
    \/ \E c \in 1..MaxCategories, n \in ProductNames, pr \in Prices,
          accepted \in BOOLEAN : ~Running /\ ProductCreate(c, n, pr, accepted)
    \/ \E id \in 1..MaxProducts, c \in 1..MaxCategories, n \in ProductNames,
          pr \in Prices, accepted \in BOOLEAN :
             ~Running /\ ProductUpdate(id, c, n, pr, accepted)
    \/ \E id \in 1..MaxProducts : ~Running /\ ProductDelete(id)
    \/ \E n \in CategoryNames : ~Running /\ CategoryCreate(n)
    \/ \E c \in 1..MaxCategories, n \in CategoryNames :
          \E order \in Orders(ProductsOf(products, c)),
             rejected \in SUBSET ProductsOf(products, c) :
                ~Running /\ CategoryUpdate(c, n, order, rejected)
    \/ \E c \in 1..MaxCategories : ~Running /\ CategoryDelete(c)
    \/ CmdStart
    \/ CmdDeleteIndex
    \/ CmdCreateIndex
    \/ \E order \in Orders(DOMAIN products) : CmdFetch(order)
    \/ \E accepted \in BOOLEAN : CmdIndexOne(accepted)
    \/ CmdReport
    \/ CmdExit

Spec == Init /\ [][Next]_vars

\* ---------------------------------------------------- request parameters
\* A query parameter is absent (<<>>) or present with one raw value (<<v>>).
\* A raw number is a numeral (num, with its value) or some other text.
Num(n) == [num |-> TRUE, v |-> n]
NotANumber == [num |-> FALSE, v |-> 0]

\* A token of the comma-separated category parameter, after strip().
Tok(n) == [kind |-> "int", v |-> n]
BlankTok == [kind |-> "blank", v |-> 0]
WordTok == [kind |-> "word", v |-> 0]

MAX_PAGE_SIZE == 100
PAGE_SIZE == 20
SORT_CHOICES == {"relevance", "price_asc", "price_desc"}
SuggestMaxSize == 10
SuggestDefaultSize == 5

RECURSIVE IntsOf(_)
IntsOf(toks) ==
    IF toks = <<>> THEN <<>>
    ELSE IF Head(toks).kind = "blank" THEN IntsOf(Tail(toks))
    ELSE <<Head(toks).v>> \o IntsOf(Tail(toks))

\* SearchQuerySerializer.validate_category: [int(x.strip()) for x in
\* value.split(",") if x.strip()], a ValueError being the field's error.
validate_category_every_token(toks) ==
    IF \E i \in DOMAIN toks : toks[i].kind # "int"
    THEN [ok |-> FALSE, ids |-> <<>>]
    ELSE [ok |-> TRUE, ids |-> [i \in DOMAIN toks |-> toks[i].v]]

validate_category(toks) ==
    IF \E i \in DOMAIN toks : toks[i].kind = "word"
    THEN [ok |-> FALSE, ids |-> <<>>]
    ELSE [ok |-> TRUE, ids |-> IntsOf(toks)]

\* DecimalField(min_value=0) / IntegerField(min_value=..., max_value=...).
AtLeast(raw, lo) == raw.num /\ raw.v >= lo

Within(raw, lo, hi) == raw.num /\ raw.v >= lo /\ raw.v <= hi

\* SearchQuerySerializer.validate: with both bounds, price_min <= price_max.
validate_unchecked(price_min, price_max) == TRUE

validate(price_min, price_max) ==
    ~(price_min # <<>> /\ price_max # <<>> /\ price_min[1] > price_max[1])

\* SearchQuerySerializer(data=...).is_valid(): every field is validated and
\* the field errors collected; validate() runs only when there is none.
SearchQuerySerializer(req) ==
    LET fieldErrors ==
            {f \in {"category"} :
                req.category # <<>> /\ ~validate_category(req.category[1]).ok}
            \cup {f \in {"price_min"} :
                req.price_min # <<>> /\ ~AtLeast(req.price_min[1], 0)}
            \cup {f \in {"price_max"} :
                req.price_max # <<>> /\ ~AtLeast(req.price_max[1], 0)}
            \cup {f \in {"sort"} :
                req.sort # <<>> /\ req.sort[1] \notin SORT_CHOICES}
            \cup {f \in {"page"} :
                req.page # <<>> /\ ~AtLeast(req.page[1], 1)}
            \cup {f \in {"page_size"} :
                req.page_size # <<>>
                /\ ~Within(req.page_size[1], 1, MAX_PAGE_SIZE)}
        data ==
            [q         |-> IF req.q = <<>> THEN "" ELSE req.q[1],
             category  |-> IF req.category = <<>> THEN <<>>
                           ELSE validate_category(req.category[1]).ids,
             price_min |-> IF req.price_min = <<>> THEN <<>>
                           ELSE <<req.price_min[1].v>>,
             price_max |-> IF req.price_max = <<>> THEN <<>>
                           ELSE <<req.price_max[1].v>>,
             sort      |-> IF req.sort = <<>> THEN "relevance" ELSE req.sort[1],
             page      |-> IF req.page = <<>> THEN 1 ELSE req.page[1].v,
             page_size |-> IF req.page_size = <<>> THEN PAGE_SIZE
                           ELSE req.page_size[1].v]
    IN  IF fieldErrors # {}
        THEN [errors |-> fieldErrors, data |-> data]
        ELSE IF ~validate(data.price_min, data.price_max)
        THEN [errors |-> {"non_field_errors"}, data |-> data]
        ELSE [errors |-> {}, data |-> data]

\* SuggestQuerySerializer: q required with min_length=1 (a blank q is an
\* error), size an integer in 1..10, 5 when absent.
SuggestQuerySerializer(req) ==
    LET errs == {f \in {"q"} : req.q = <<>> \/ req.q[1] = ""}
                \cup {f \in {"size"} :
                        req.size # <<>>
                        /\ ~Within(req.size[1], 1, SuggestMaxSize)}
    IN  [errors |-> errs,
         data   |-> [q    |-> IF req.q = <<>> THEN "" ELSE req.q[1],
                     size |-> IF req.size = <<>> THEN SuggestDefaultSize
                              ELSE req.size[1].v]]

\* ------------------------------------------------------------ read path
\* price = fields.FloatField(): the engine indexes the price as a 32-bit
\* float and converts the bounds of a range filter to the same type.  Every
\* whole number up to FloatExact (2^24) is such a float; above it (and below
\* 2^25) only the even ones are, and an odd one rounds to the neighbour whose
\* half is even.  float(price_min) in the view is a 64-bit float, which
\* holds every 12-digit price apart.
FloatExact == 16777216
Float32(x) ==
    IF x <= FloatExact \/ x % 2 = 0 THEN x
    ELSE IF ((x - 1) \div 2) % 2 = 0 THEN x - 1
    ELSE x + 1

\* The terms the analyzer of the text fields keeps of a text, at index time
\* and of the query text alike: the words of the text; punctuation
\* and blanks leave no term.
Terms(text) ==
    IF text \in {"", "--"} THEN {}
    ELSE IF text = "n1 n2" THEN {"n1", "n2"}
    ELSE {text}

\* The documents the built query matches: multi_match on the text (a
\* document matches when its name or description shares a term with the
\* text; a text without terms matches nothing) or match_all, the terms filter on
\* category_id, the range filter on price with the bounds that are present.
MatchedFirstCategory(idx, data) ==
    {d \in DOMAIN idx :
        /\ data.q = ""
              \/ (Terms(idx[d].name) \cup Terms(idx[d].description))
                    \cap Terms(data.q) # {}
        /\ data.category = <<>> \/ data.category[1] = idx[d].category_id
        /\ data.price_min = <<>>
              \/ Float32(idx[d].price) >= Float32(data.price_min[1])
        /\ data.price_max = <<>>
              \/ Float32(idx[d].price) <= Float32(data.price_max[1])}

MatchedTruthyBounds(idx, data) ==
    {d \in DOMAIN idx :
        /\ data.q = ""
              \/ (Terms(idx[d].name) \cup Terms(idx[d].description))
                    \cap Terms(data.q) # {}
        /\ data.category = <<>>
              \/ \E i \in DOMAIN data.category : data.category[i] = idx[d].category_id
        /\ data.price_min = <<>> \/ data.price_min[1] = 0
              \/ Float32(idx[d].price) >= Float32(data.price_min[1])
        /\ data.price_max = <<>> \/ data.price_max[1] = 0
              \/ Float32(idx[d].price) <= Float32(data.price_max[1])}

Matched(idx, data) ==
    {d \in DOMAIN idx :
        /\ data.q = ""
              \/ (Terms(idx[d].name) \cup Terms(idx[d].description))
                    \cap Terms(data.q) # {}
        /\ data.category = <<>>
              \/ \E i \in DOMAIN data.category : data.category[i] = idx[d].category_id
        /\ data.price_min = <<>>
              \/ Float32(idx[d].price) >= Float32(data.price_min[1])
        /\ data.price_max = <<>>
              \/ Float32(idx[d].price) <= Float32(data.price_max[1])}

\* The engine's order of the hits: by price for the price sorts, by id for
\* relevance without text, the engine's own ranking otherwise.
RankedByPriceOnly(hits, idx, data) ==
    \A i, j \in DOMAIN hits :
        i < j =>
            IF data.sort = "price_asc" THEN Float32(idx[hits[i]].price)
                    <= Float32(idx[hits[j]].price)
            ELSE IF data.sort = "price_desc"
            THEN Float32(idx[hits[i]].price)
                    >= Float32(idx[hits[j]].price)
            ELSE TRUE

RankedWithoutTextOnly(hits, idx, data) ==
    \A i, j \in DOMAIN hits :
        i < j =>
            IF data.q # "" THEN TRUE
            ELSE IF data.sort = "price_asc"
            THEN Float32(idx[hits[i]].price)
                    <= Float32(idx[hits[j]].price)
            ELSE IF data.sort = "price_desc"
            THEN Float32(idx[hits[i]].price)
                    >= Float32(idx[hits[j]].price)
            ELSE hits[i] < hits[j]

Ranked(hits, idx, data) ==
    \A i, j \in DOMAIN hits :
        i < j =>
            IF data.sort = "price_asc" THEN Float32(idx[hits[i]].price)
                    <= Float32(idx[hits[j]].price)
            ELSE IF data.sort = "price_desc"
            THEN Float32(idx[hits[i]].price)
                    >= Float32(idx[hits[j]].price)
            ELSE IF data.q = "" THEN hits[i] < hits[j]
            ELSE TRUE

\* s[start:end] of the hits; a window beyond the hits is empty.
SliceInclusive(hits, start, end) ==
    [i \in 1..(IF Len(hits) <= start THEN 0
               ELSE (IF end + 1 < Len(hits) THEN end + 1 ELSE Len(hits)) - start)
        |-> hits[start + i]]

Slice(hits, start, end) ==
    [i \in 1..(IF Len(hits) <= start THEN 0
               ELSE (IF end < Len(hits) THEN end ELSE Len(hits)) - start)
        |-> hits[start + i]]

\* s.execute() returns the engine's answer; it raises when the engine is
\* unreachable or has no "products" index, and nothing catches that.
EngineAnswersAlways == TRUE

EngineAnswers == engineUp /\ indexExists

\* The query reaches the engine only after validation, and only in live
\* mode.
SearchQueriesUnvalidated(req) == live

SearchQueries(req) == SearchQuerySerializer(req).errors = {} /\ live

\* The "products" index is created with the settings of ProductDocument.Index,
\* which leave index.max_result_window at the engine's default: a search
\* whose window ends beyond it is refused by the engine, and s.execute()
\* raises.
max_result_window == 10000

WithinResultWindow(end) == end <= max_result_window

\* ProductSearchView.get.  ranking is the engine's order of all matches.
ProductSearchView(req, ranking) ==
    LET v     == SearchQuerySerializer(req)
        data  == v.data
        start == (data.page - 1) * data.page_size
        end   == start + data.page_size
        total == Len(ranking)
    IN  IF v.errors # {}
        THEN [NoResp EXCEPT !.op = "search", !.status = 400, !.errors = v.errors,
                            !.engineQueries = IF SearchQueries(req) THEN 1 ELSE 0]
        ELSE IF ~live
        THEN [NoResp EXCEPT !.op = "search", !.status = 200,
                            !.validated = data,
                            !.page = data.page, !.page_size = data.page_size,
                            !.has_prev = data.page > 1]
        ELSE IF ~EngineAnswers \/ ~WithinResultWindow(end)
        THEN [NoResp EXCEPT !.op = "search", !.status = 500, !.validated = data,
                            !.engineQueries = 1]
        ELSE [NoResp EXCEPT !.op = "search", !.status = 200, !.validated = data,
                            !.engineQueries = 1,
                            !.count = total,
                            !.page = data.page, !.page_size = data.page_size,
                            !.has_next = end < total, !.has_prev = start > 0,
                            !.results = Slice(ranking, start, end)]

\* The orders in which the engine may return the matches of a request; the
\* empty answer stands in when no query is run.
Rankings(req) ==
    {r \in Orders(IF SearchQueries(req) /\ EngineAnswers
                  THEN Matched(index, SearchQuerySerializer(req).data)
                  ELSE {}) :
        Ranked(r, index, SearchQuerySerializer(req).data)}

Search(req, ranking) ==
    /\ ranking \in Rankings(req)
    /\ resp' = [ProductSearchView(req, ranking) EXCEPT !.request = req]
    /\ UNCHANGED <<live, writers, wait, engineUp, store, engine, last, cmd, syncFailed>>

\* The completion lookup reaches the engine only after validation, and only
\* in live mode.
SuggestQueries(req) == SuggestQuerySerializer(req).errors = {} /\ live

\* ProductSuggestView.get.  completions is the engine's option list.
ProductSuggestViewFirstOption(req, completions) ==
    LET v == SuggestQuerySerializer(req)
    IN  IF v.errors # {}
        THEN [NoResp EXCEPT !.op = "suggest", !.status = 400, !.errors = v.errors,
                            !.engineQueries = IF SuggestQueries(req) THEN 1 ELSE 0]
        ELSE IF ~live
        THEN [NoResp EXCEPT !.op = "suggest", !.status = 200,
                            !.q = v.data.q, !.size = v.data.size]
        ELSE IF ~EngineAnswers
        THEN [NoResp EXCEPT !.op = "suggest", !.status = 500, !.engineQueries = 1]
        ELSE [NoResp EXCEPT !.op = "suggest", !.status = 200, !.engineQueries = 1,
                            !.q = v.data.q, !.size = v.data.size,
                            !.options = IF completions = <<>> THEN <<>>
                                        ELSE <<completions[1]>>]

ProductSuggestView(req, completions) ==
    LET v == SuggestQuerySerializer(req)
    IN  IF v.errors # {}
        THEN [NoResp EXCEPT !.op = "suggest", !.status = 400, !.errors = v.errors,
                            !.engineQueries = IF SuggestQueries(req) THEN 1 ELSE 0]
        ELSE IF ~live
        THEN [NoResp EXCEPT !.op = "suggest", !.status = 200,
                            !.q = v.data.q, !.size = v.data.size]
        ELSE IF ~EngineAnswers
        THEN [NoResp EXCEPT !.op = "suggest", !.status = 500, !.engineQueries = 1]
        ELSE [NoResp EXCEPT !.op = "suggest", !.status = 200, !.engineQueries = 1,
                            !.q = v.data.q, !.size = v.data.size,
                            !.options = completions]

\* The engine's answers to a completion lookup bounded to size options, as
\* the view receives them: any texts, repeated or not, whatever the
\* completion entries of the index are.
CompletionTexts == {"n1", "n2"}
MaxOptions == 2
Completions(size) ==
    UNION {[1..k -> CompletionTexts] :
              k \in 0..(IF size < MaxOptions THEN size ELSE MaxOptions)}

Suggest(req, completions) ==
    /\ completions \in (IF SuggestQueries(req) /\ EngineAnswers
                         THEN Completions(SuggestQuerySerializer(req).data.size)
                         ELSE {<<>>})
    /\ resp' = [ProductSuggestView(req, completions) EXCEPT !.request = req]
    /\ UNCHANGED <<live, writers, wait, engineUp, store, engine, last, cmd, syncFailed>>

\* ------------------------------------ the read path over a given index
ReadCategoryNames == [c \in 1..MaxCategories |->
                        IF c = 1 THEN "c1" ELSE IF c = 2 THEN "c2" ELSE "c3"]
ReadPrices == {10, 20}
ReadRows == [category : 1..MaxCategories, name : ProductNames, price : ReadPrices,
             description : {""}]

\* Any store of up to MaxProducts products, indexed or not.
InitRead ==
    /\ live \in BOOLEAN
    /\ engineUp \in BOOLEAN
    /\ categories = ReadCategoryNames
    /\ nextCategoryId = MaxCategories + 1
    /\ \E S \in SUBSET (1..MaxProducts) : products \in [S -> ReadRows]
    /\ nextProductId = MaxProducts + 1
    /\ indexExists \in BOOLEAN
    /\ index = IF indexExists
               THEN [p \in DOMAIN products |-> Prepare(products[p], categories)]
               ELSE <<>>
    /\ last = NoOp
    /\ cmd = IdleCmd
    /\ syncFailed = FALSE
    /\ writers = NoWriters
    /\ wait = NoWait
    /\ resp = NoResp

SearchRequests ==
    [q         : {<<>>, <<"n1">>},
     category  : {<<>>, <<<<Tok(1)>>>>, <<<<Tok(2), BlankTok, Tok(1)>>>>,
                  <<<<Tok(1), WordTok, Tok(3)>>>>},
     price_min : {<<>>, <<Num(10)>>, <<Num(20)>>},
     price_max : {<<>>, <<Num(10)>>, <<Num(-1)>>},
     sort      : {<<>>, <<"price_desc">>, <<"bogus">>},
     page      : {<<>>, <<Num(0)>>, <<Num(2)>>},
     page_size : {<<>>, <<Num(1)>>, <<Num(0)>>, <<Num(MAX_PAGE_SIZE + 1)>>}]

SuggestRequests ==
    [q    : {<<>>, <<"">>, <<"n">>},
     size : {<<>>, <<Num(0)>>, <<Num(1)>>, <<Num(SuggestMaxSize)>>,
             <<Num(SuggestMaxSize + 1)>>, <<NotANumber>>}]

\* Requests are independent: one request is answered from each state.
Unanswered == resp.op = "none"

NextRead ==
    \/ Unanswered /\ \E req \in SearchRequests :
          \E ranking \in Rankings(req) : Search(req, ranking)
    \/ Unanswered /\ \E req \in SuggestRequests :
          \E completions \in Completions(MaxOptions) : Suggest(req, completions)

SpecRead == InitRead /\ [][NextRead]_vars

\* ------------------------------------- the read path, page by page
\* An index of up to MaxHits documents, searched without text or filter in
\* the default sort, one page at a time.
MaxHits == 12
PageRow == [category |-> 1, name |-> "n1", price |-> 10, description |-> ""]

InitPage ==
    /\ live \in BOOLEAN
    /\ engineUp = TRUE
    /\ categories = ReadCategoryNames
    /\ nextCategoryId = MaxCategories + 1
    /\ \E n \in 0..MaxHits : products = [p \in 1..n |-> PageRow]
    /\ nextProductId = Len(products) + 1
    /\ indexExists = TRUE
    /\ index = [p \in DOMAIN products |-> Prepare(products[p], categories)]
    /\ last = NoOp
    /\ cmd = IdleCmd
    /\ syncFailed = FALSE
    /\ writers = NoWriters
    /\ wait = NoWait
    /\ resp = NoResp

PageRequests ==
    [q         : {<<>>},
     category  : {<<>>},
     price_min : {<<>>},
     price_max : {<<>>},
     sort      : {<<>>},
     page      : {<<>>, <<Num(1)>>, <<Num(2)>>, <<Num(3)>>},
     page_size : {<<>>, <<Num(1)>>, <<Num(5)>>, <<Num(MAX_PAGE_SIZE)>>}]

\* The ids of S in ascending order.
Ascending(S) ==
    [i \in 1..Cardinality(S) |->
        CHOOSE x \in S : Cardinality({y \in S : y < x}) = i - 1]

\* The engine's answers offered to Search, which takes the ones that are in
\* Rankings(req): the id order of the index, or nothing when no query runs.
PageRankings == {<<>>, Ascending(DOMAIN index)}

NextPage ==
    Unanswered /\ \E req \in PageRequests :
        \E ranking \in PageRankings : Search(req, ranking)

SpecPage == InitPage /\ [][NextPage]_vars

\* ------------------------------ the read path, filters and sort modes
\* A live process with the engine reachable and an index that mirrors the
\* store; the requests vary the text, the filters and the sort mode.
QueryTexts == {[name |-> "n1", description |-> ""],
               [name |-> "n2", description |-> ""],
               [name |-> "n2", description |-> "n1"]}
QueryPrices == {10, FloatExact, FloatExact + 1}
QueryRows ==
    {[category |-> c, name |-> t.name, price |-> pr,
      description |-> t.description] :
        c \in 1..MaxCategories, t \in QueryTexts, pr \in QueryPrices}

InitQuery ==
    /\ live = TRUE
    /\ engineUp = TRUE
    /\ categories = ReadCategoryNames
    /\ nextCategoryId = MaxCategories + 1
    /\ \E S \in SUBSET (1..MaxProducts) : products \in [S -> QueryRows]
    /\ nextProductId = MaxProducts + 1
    /\ indexExists = TRUE
    /\ index = [p \in DOMAIN products |-> Prepare(products[p], categories)]
    /\ last = NoOp
    /\ cmd = IdleCmd
    /\ syncFailed = FALSE
    /\ writers = NoWriters
    /\ wait = NoWait
    /\ resp = NoResp

QueryRequests ==
    [q         : {<<>>, <<"n1">>},
     category  : {<<>>, <<<<BlankTok>>>>, <<<<Tok(1)>>>>, <<<<Tok(1), Tok(1)>>>>,
                  <<<<Tok(1), Tok(2)>>>>, <<<<Tok(2), BlankTok, Tok(1)>>>>,
                  <<<<Tok(1), WordTok, Tok(3)>>>>},
     price_min : {<<>>, <<Num(0)>>, <<Num(FloatExact + 1)>>},
     price_max : {<<>>, <<Num(0)>>, <<Num(10)>>, <<Num(FloatExact)>>},
     sort      : {<<>>, <<"price_asc">>, <<"price_desc">>},
     page      : {<<>>},
     page_size : {<<>>}]

NextQuery ==
    Unanswered /\ \E req \in QueryRequests :
        \E ranking \in Rankings(req) : Search(req, ranking)

SpecQuery == InitQuery /\ [][NextQuery]_vars

\* ------------------------------------------- a write, then a read
\* Products are created and updated, then one search or suggest request is
\* answered from the index the writes have left.
RoundTripNames == {"n1", "n1 n2", "--"}

InitRoundTrip ==
    /\ live \in BOOLEAN
    /\ engineUp = TRUE
    /\ categories = ReadCategoryNames
    /\ nextCategoryId = MaxCategories + 1
    /\ products = <<>>
    /\ nextProductId = 1
    /\ indexExists = FALSE
    /\ index = <<>>
    /\ last = NoOp
    /\ cmd = IdleCmd
    /\ syncFailed = FALSE
    /\ writers = NoWriters
    /\ wait = NoWait
    /\ resp = NoResp

RoundTripSearches ==
    [q         : {<<>>, <<"n1">>, <<"n1 n2">>, <<"--">>},
     category  : {<<>>},
     price_min : {<<>>},
     price_max : {<<>>},
     sort      : {<<>>},
     page      : {<<>>},
     page_size : {<<>>, <<Num(1)>>}]

RoundTripSuggests ==
    [q    : {<<"n">>, <<"n1">>, <<"n1 n2">>},
     size : {<<>>, <<Num(1)>>}]

\* The texts a completion input completes: its prefixes.
Prefixes(text) ==
    IF text = "n1" THEN {"n", "n1"}
    ELSE IF text = "n1 n2" THEN {"n", "n1", "n1 n2"}
    ELSE {text}

\* The engine's answers to the completion lookup of q over the field
\* "suggest" of the index: the inputs that q is a prefix of, one per
\* document, at most size of them, in the engine's order.
Completing(idx, q, size) ==
    LET entries == {d \in DOMAIN idx :
                       \E i \in DOMAIN idx[d].suggest :
                          q \in Prefixes(idx[d].suggest[i])}
        n == IF size < Cardinality(entries) THEN size ELSE Cardinality(entries)
    IN  {[i \in 1..n |-> idx[o[i]].suggest[1]] : o \in Orders(entries)}

NextRoundTrip ==
    \/ Unanswered /\ \E n \in RoundTripNames, accepted \in BOOLEAN :
          ProductCreate(1, n, 10, accepted)
    \/ Unanswered /\ \E id \in 1..MaxProducts, n \in RoundTripNames,
                        accepted \in BOOLEAN :
          ProductUpdate(id, 1, n, 10, accepted)
    \/ Unanswered /\ \E req \in RoundTripSearches :
          \E ranking \in Rankings(req) : Search(req, ranking)
    \/ Unanswered /\ \E req \in RoundTripSuggests :
          \E completions \in
                Completing(index, SuggestQuerySerializer(req).data.q,
                           SuggestQuerySerializer(req).data.size) :
             Suggest(req, completions)

SpecRoundTrip == InitRoundTrip /\ [][NextRoundTrip]_vars

\* ------------------------------- the read path, from engine answer to payload
\* What s.execute() hands to the view: the total of the matches, which the
\* engine reports as a number or as an object carrying the number, and the
\* hits of the requested window, each with its meta data and the fields of
\* its source.
ScalarTotal(n) == [int |-> n]
ObjectTotal(n) == [value |-> n, relation |-> "eq"]
None == <<>>

\* getattr(obj, name, default)
Getattr(obj, name, default) == IF name \in DOMAIN obj THEN obj[name] ELSE default

\* results.hits.total.value if hasattr(results.hits.total, "value")
\* else results.hits.total
Total(total) == IF "value" \in DOMAIN total THEN total.value ELSE total.int

Item(hit) ==
    [id            |-> hit.meta.id,
     category      |-> hit.category.id,
     category_name |-> hit.category.name,
     name          |-> hit.name,
     price         |-> hit.price,
     description   |-> Getattr(hit, "description", ""),
     image         |-> Getattr(hit, "image", ""),
     _score        |-> Getattr(hit.meta, "score", None)]

ItemsReversed(hits) == [i \in DOMAIN hits |-> Item(hits[Len(hits) + 1 - i])]

Items(hits) == [i \in DOMAIN hits |-> Item(hits[i])]

\* ProductSearchView.get as a function of the request and of the answer of
\* s.execute(): results of the payload are the projected hits themselves.
ProductSearchViewOn(req, results) ==
    LET v     == SearchQuerySerializer(req)
        data  == v.data
        start == (data.page - 1) * data.page_size
        end   == start + data.page_size
        total == Total(results.total)
    IN  IF v.errors # {}
        THEN [NoResp EXCEPT !.op = "search", !.status = 400, !.errors = v.errors,
                            !.engineQueries = IF SearchQueries(req) THEN 1 ELSE 0]
        ELSE IF ~live
        THEN [NoResp EXCEPT !.op = "search", !.status = 200,
                            !.validated = data,
                            !.page = data.page, !.page_size = data.page_size,
                            !.has_prev = data.page > 1]
        ELSE IF ~EngineAnswers \/ ~WithinResultWindow(end)
        THEN [NoResp EXCEPT !.op = "search", !.status = 500, !.validated = data,
                            !.engineQueries = 1]
        ELSE [NoResp EXCEPT !.op = "search", !.status = 200, !.validated = data,
                            !.engineQueries = 1,
                            !.count = total,
                            !.page = data.page, !.page_size = data.page_size,
                            !.has_next = end < total, !.has_prev = start > 0,
                            !.results = Items(results.hits)]

\* The answers of the engine to a search of one window: at most MaxWindow
\* hits of distinct ids, no more than the window holds and no more than the
\* total leaves from the window's start.  A hit carries a score, a null
\* score (sorted searches) or none, and the documents of an index need not
\* all carry a description and an image.
MaxWindow == 2
MaxTotal == 3
HitIds == {"1", "2"}
HitMetas == UNION {{[id |-> i], [id |-> i, score |-> None], [id |-> i, score |-> <<1>>]} :
                     i \in HitIds}
RawHits ==
    UNION {LET c == [id |-> 1, name |-> "c1"]
           IN  {[meta |-> m, category |-> c, name |-> "n1", price |-> 10],
                [meta |-> m, category |-> c, name |-> "n1", price |-> 10,
                 description |-> "d1"],
                [meta |-> m, category |-> c, name |-> "n1", price |-> 10,
                 image |-> "/media/n1.png"],
                [meta |-> m, category |-> c, name |-> "n1", price |-> 10,
                 description |-> "d1", image |-> "/media/n1.png"]} :
           m \in HitMetas}
NoAnswer == [total |-> ScalarTotal(0), hits |-> <<>>]
Answers(data) ==
    LET start == (data.page - 1) * data.page_size
    IN  {a \in [total : {ScalarTotal(n) : n \in 0..MaxTotal}
                         \cup {ObjectTotal(n) : n \in 0..MaxTotal},
                hits  : UNION {[1..k -> RawHits] : k \in 0..MaxWindow}] :
            /\ Len(a.hits) <= data.page_size
            /\ start + Len(a.hits) <= Total(a.total)
            /\ \A i, j \in DOMAIN a.hits :
                  a.hits[i].meta.id = a.hits[j].meta.id => i = j}

SearchOn(req, results) ==
    /\ results \in (IF SearchQueries(req) /\ EngineAnswers
                     THEN Answers(SearchQuerySerializer(req).data)
                     ELSE {NoAnswer})
    /\ resp' = [ProductSearchViewOn(req, results) EXCEPT !.request = req,
                                                         !.answer = results]
    /\ UNCHANGED <<live, writers, wait, engineUp, store, engine, last, cmd, syncFailed>>

InitProject ==
    /\ live \in BOOLEAN
    /\ engineUp \in BOOLEAN
    /\ categories = ReadCategoryNames
    /\ nextCategoryId = MaxCategories + 1
    /\ products = <<>>
    /\ nextProductId = 1
    /\ indexExists = TRUE
    /\ index = <<>>
    /\ last = NoOp
    /\ cmd = IdleCmd
    /\ syncFailed = FALSE
    /\ writers = NoWriters
    /\ wait = NoWait
    /\ resp = NoResp

ProjectRequests ==
    [q         : {<<>>, <<"n1">>},
     category  : {<<>>},
     price_min : {<<>>},
     price_max : {<<>>},
     sort      : {<<>>, <<"price_asc">>},
     page      : {<<>>, <<Num(2)>>},
     page_size : {<<>>, <<Num(1)>>, <<Num(0)>>}]

NextProject ==
    Unanswered /\ \E req \in ProjectRequests :
        \E results \in Answers(SearchQuerySerializer(req).data) \cup {NoAnswer} :
            SearchOn(req, results)

SpecProject == InitProject /\ [][NextProject]_vars

\* ------------------------------------- two writers of the same Product
\* Product.save() of an existing row by writer w, up to the row's write: in
\* autocommit the row is committed before post_save is sent, and w keeps
\* the instance it has saved.
SaveRow(w, id, row) ==
    /\ writers[w].pc = "idle"
    /\ id \in DOMAIN products
    /\ row.category \in DOMAIN categories
    /\ products' = Put(products, id, row)
    /\ writers' = [writers EXCEPT ![w] = [pc |-> "saved", id |-> id, row |-> row]]
    /\ UNCHANGED <<live, wait, resp, engineUp, categories, nextCategoryId,
                   nextProductId, engine, last, cmd, syncFailed>>

\* The rest of that save(): post_save runs index_product on the instance of
\* w, whatever the row holds by now.
PostSave(w, accepted) ==
    /\ writers[w].pc = "saved"
    /\ LET id == writers[w].id
           r  == index_product(index, indexExists, id,
                               Prepare(writers[w].row, categories),
                               engineUp /\ accepted)
       IN  /\ index' = r.index
           /\ indexExists' = r.exists
           /\ last' = [op |-> "product_update", id |-> id, raised |-> r.raised,
                       engineFailed |-> r.raised,
                       attempted |-> IF r.called THEN {id} ELSE {},
                       notFound |-> FALSE]
           /\ syncFailed' = (syncFailed \/ r.raised)
    /\ writers' = [writers EXCEPT ![w].pc = "done"]
    /\ UNCHANGED <<live, wait, resp, engineUp, store, cmd>>

WriterRows == [category : 1..MaxCategories, name : {"n1", "n2"},
               price : ReadPrices, description : {""}]

\* One Product, indexed, and writers about to update it.
InitWriters ==
    /\ live = TRUE
    /\ engineUp = TRUE
    /\ categories = ReadCategoryNames
    /\ nextCategoryId = MaxCategories + 1
    /\ products = [p \in {1} |-> PageRow]
    /\ nextProductId = 2
    /\ indexExists = TRUE
    /\ index = [p \in DOMAIN products |-> Prepare(products[p], categories)]
    /\ last = NoOp
    /\ cmd = IdleCmd
    /\ syncFailed = FALSE
    /\ writers = NoWriters
    /\ wait = NoWait
    /\ resp = NoResp

NextWriters ==
    \/ \E w \in Writers, row \in WriterRows : SaveRow(w, 1, row)
    \/ \E w \in Writers, accepted \in BOOLEAN : PostSave(w, accepted)

SpecWriters == InitWriters /\ [][NextWriters]_vars

\* --------------------------------------- a rebuild under live writes
\* One run of populate_es, step by step, while Products are created, updated
\* and deleted.
RebuildRows == [category : {1}, name : {"n1"}, price : ReadPrices,
                description : {""}]

NextRebuild ==
    \/ \E accepted \in BOOLEAN : ProductCreate(1, "n1", 10, accepted)
    \/ \E w \in Writers, id \in 1..MaxProducts, row \in RebuildRows :
          SaveRow(w, id, row)
    \/ \E w \in Writers, accepted \in BOOLEAN : PostSave(w, accepted)
    \/ \E id \in 1..MaxProducts : ProductDelete(id)
    \/ CmdStart
    \/ CmdDeleteIndex
    \/ CmdCreateIndex
    \/ \E order \in Orders(DOMAIN products) : CmdFetch(order)
    \/ \E accepted \in BOOLEAN : CmdIndexOne(accepted)
    \/ CmdReport

SpecRebuild == InitWriters /\ [][NextRebuild]_vars

\* -------------------------------------------------- the CRUD endpoints
\* permissions.IsAuthenticatedOrReadOnly and permissions.AllowAny.
SAFE_METHODS == {"GET", "HEAD", "OPTIONS"}

IsAuthenticatedOrAnyone(method, authenticated) == TRUE

IsAuthenticatedOrReadOnly(method, authenticated) ==
    method \in SAFE_METHODS \/ authenticated

AllowAny(method, authenticated) == TRUE

\* The status of a request refused for want of credentials, which the
\* authentication classes of the project's settings decide.
HTTP_401_UNAUTHORIZED == 401

\* CategorySerializer.validate_name: no Category row may hold the name.
validate_name(cats, value) == \A c \in DOMAIN cats : cats[c] # value

\* The fields in error of a Category write; instance is 0 for a create.  The
\* unique validator of the model field leaves the instance itself out,
\* validate_name does not.
CategorySerializer(cats, instance, n) ==
    IF /\ \A c \in DOMAIN cats \ {instance} : cats[c] # n
       /\ validate_name(cats, n)
    THEN {} ELSE {"name"}

\* ProductSerializer.validate_price.
validate_price(value) == value > 0

\* The fields in error of a Product write.
ProductSerializer(cats, c, pr) ==
    (IF c \in DOMAIN cats THEN {} ELSE {"category"})
        \cup (IF validate_price(pr) THEN {} ELSE {"price"})

\* A response that leaves everything else as it is.
Respond(op, method, authenticated, status, errors) ==
    /\ resp' = [NoResp EXCEPT !.op = op, !.status = status, !.errors = errors,
                              !.request = [method |-> method,
                                           authenticated |-> authenticated]]
    /\ UNCHANGED <<live, writers, wait, engineUp, store, engine, last, cmd, syncFailed>>

\* CategoryViewSet: list, retrieve, create, update (PUT) and destroy.
CategoryViewSetList(authenticated) ==
    IF ~IsAuthenticatedOrReadOnly("GET", authenticated)
    THEN Respond("category_list", "GET", authenticated, HTTP_401_UNAUTHORIZED, {})
    ELSE Respond("category_list", "GET", authenticated, 200, {})

CategoryViewSetRetrieve(authenticated, c) ==
    IF ~IsAuthenticatedOrReadOnly("GET", authenticated)
    THEN Respond("category_retrieve", "GET", authenticated, HTTP_401_UNAUTHORIZED, {})
    ELSE Respond("category_retrieve", "GET", authenticated,
                 IF c \in DOMAIN categories THEN 200 ELSE 404, {})

CategoryViewSetCreate(authenticated, n) ==
    IF ~IsAuthenticatedOrReadOnly("POST", authenticated)
    THEN Respond("category_create", "POST", authenticated, HTTP_401_UNAUTHORIZED, {})
    ELSE IF CategorySerializer(categories, 0, n) # {}
    THEN Respond("category_create", "POST", authenticated, 400,
                 CategorySerializer(categories, 0, n))
    ELSE CategoryCreate(n)

CategoryViewSetUpdate(authenticated, c, n, order, rejected) ==
    IF ~IsAuthenticatedOrReadOnly("PUT", authenticated)
    THEN Respond("category_update", "PUT", authenticated, HTTP_401_UNAUTHORIZED, {})
    ELSE IF c \notin DOMAIN categories
    THEN Respond("category_update", "PUT", authenticated, 404, {})
    ELSE IF CategorySerializer(categories, c, n) # {}
    THEN Respond("category_update", "PUT", authenticated, 400,
                 CategorySerializer(categories, c, n))
    ELSE CategoryUpdate(c, n, order, rejected)

CategoryViewSetDestroy(authenticated, c) ==
    IF ~IsAuthenticatedOrReadOnly("DELETE", authenticated)
    THEN Respond("category_destroy", "DELETE", authenticated, HTTP_401_UNAUTHORIZED, {})
    ELSE IF c \notin DOMAIN categories
    THEN Respond("category_destroy", "DELETE", authenticated, 404, {})
    ELSE CategoryDelete(c)

\* ProductViewSet: list, retrieve, create, update (PUT) and destroy.
ProductViewSetList(authenticated) ==
    IF ~IsAuthenticatedOrReadOnly("GET", authenticated)
    THEN Respond("product_list", "GET", authenticated, HTTP_401_UNAUTHORIZED, {})
    ELSE Respond("product_list", "GET", authenticated, 200, {})

ProductViewSetRetrieve(authenticated, id) ==
    IF ~IsAuthenticatedOrReadOnly("GET", authenticated)
    THEN Respond("product_retrieve", "GET", authenticated, HTTP_401_UNAUTHORIZED, {})
    ELSE Respond("product_retrieve", "GET", authenticated,
                 IF id \in DOMAIN products THEN 200 ELSE 404, {})

ProductViewSetCreate(authenticated, c, n, pr, accepted) ==
    IF ~IsAuthenticatedOrReadOnly("POST", authenticated)
    THEN Respond("product_create", "POST", authenticated, HTTP_401_UNAUTHORIZED, {})
    ELSE IF ProductSerializer(categories, c, pr) # {}
    THEN Respond("product_create", "POST", authenticated, 400,
                 ProductSerializer(categories, c, pr))
    ELSE ProductCreate(c, n, pr, accepted)

ProductViewSetUpdate(authenticated, id, c, n, pr, accepted) ==
    IF ~IsAuthenticatedOrReadOnly("PUT", authenticated)
    THEN Respond("product_update", "PUT", authenticated, HTTP_401_UNAUTHORIZED, {})
    ELSE IF id \notin DOMAIN products
    THEN Respond("product_update", "PUT", authenticated, 404, {})
    ELSE IF ProductSerializer(categories, c, pr) # {}
    THEN Respond("product_update", "PUT", authenticated, 400,
                 ProductSerializer(categories, c, pr))
    ELSE ProductUpdate(id, c, n, pr, accepted)

ProductViewSetDestroy(authenticated, id) ==
    IF ~IsAuthenticatedOrReadOnly("DELETE", authenticated)
    THEN Respond("product_destroy", "DELETE", authenticated, HTTP_401_UNAUTHORIZED, {})
    ELSE IF id \notin DOMAIN products
    THEN Respond("product_destroy", "DELETE", authenticated, 404, {})
    ELSE ProductDelete(id)

\* ProductSearchView and ProductSuggestView behind their permission.
SearchEndpoint(authenticated, req, ranking) ==
    IF ~AllowAny("GET", authenticated)
    THEN Respond("search", "GET", authenticated, HTTP_401_UNAUTHORIZED, {})
    ELSE Search(req, ranking)

SuggestEndpoint(authenticated, req, completions) ==
    IF ~AllowAny("GET", authenticated)
    THEN Respond("suggest", "GET", authenticated, HTTP_401_UNAUTHORIZED, {})
    ELSE Suggest(req, completions)

\* ProductAdmin: the add form of the admin site saves the Product as the
\* model's own fields validate it; Product.price carries no validator.
ProductAdminAdd(c, n, pr, accepted) == ProductCreate(c, n, pr, accepted)

ApiPrices == {0, 10}
ApiCategoryNames == {"c1", "c2"}
ApiSearches == {req \in SearchRequests :
                   /\ req.q = <<>> /\ req.category = <<>>
                   /\ req.price_min = <<>> /\ req.price_max = <<>>
                   /\ req.sort = <<>> /\ req.page = <<>>
                   /\ req.page_size \in {<<>>, <<Num(0)>>}}
ApiSuggests == {req \in SuggestRequests : req.size = <<>>}

\* Requests one after the other, the engine taking every document; the
\* behaviour ends with the first request that is answered without a write.
NextApi ==
    \/ Unanswered /\ \E a \in BOOLEAN : CategoryViewSetList(a)
    \/ Unanswered /\ \E a \in BOOLEAN, c \in 1..MaxCategories :
          CategoryViewSetRetrieve(a, c)
    \/ Unanswered /\ \E a \in BOOLEAN, n \in ApiCategoryNames :
          CategoryViewSetCreate(a, n)
    \/ Unanswered /\ \E a \in BOOLEAN, c \in 1..MaxCategories, n \in ApiCategoryNames :
          \E order \in Orders(ProductsOf(products, c)) :
             CategoryViewSetUpdate(a, c, n, order, {})
    \/ Unanswered /\ \E a \in BOOLEAN, c \in 1..MaxCategories :
          CategoryViewSetDestroy(a, c)
    \/ Unanswered /\ \E a \in BOOLEAN : ProductViewSetList(a)
    \/ Unanswered /\ \E a \in BOOLEAN, id \in 1..MaxProducts :
          ProductViewSetRetrieve(a, id)
    \/ Unanswered /\ \E a \in BOOLEAN, c \in 1..MaxCategories, n \in ProductNames,
                        pr \in ApiPrices :
          ProductViewSetCreate(a, c, n, pr, TRUE)
    \/ Unanswered /\ \E a \in BOOLEAN, id \in 1..MaxProducts, c \in 1..MaxCategories,
                        n \in ProductNames, pr \in ApiPrices :
          ProductViewSetUpdate(a, id, c, n, pr, TRUE)
    \/ Unanswered /\ \E a \in BOOLEAN, id \in 1..MaxProducts :
          ProductViewSetDestroy(a, id)
    \/ Unanswered /\ \E a \in BOOLEAN, req \in ApiSearches :
          \E ranking \in Rankings(req) : SearchEndpoint(a, req, ranking)
    \/ Unanswered /\ \E a \in BOOLEAN, req \in ApiSuggests :
          \E completions \in Completions(MaxOptions) :
             SuggestEndpoint(a, req, completions)
    \/ Unanswered /\ \E c \in 1..MaxCategories, n \in ProductNames,
                        pr \in ApiPrices :
          ProductAdminAdd(c, n, pr, TRUE)

SpecApi == Init /\ [][NextApi]_vars

\* --------------------------------- the read path, all pages of one query
\* Searches without free text in the default sort, page after page and past
\* the last one, over the stores of InitQuery.
DeepPage == (max_result_window \div MAX_PAGE_SIZE) + 1

PartitionRequests ==
    [q         : {<<>>},
     category  : {<<>>, <<<<Tok(1)>>>>},
     price_min : {<<>>},
     price_max : {<<>>, <<Num(10)>>},
     sort      : {<<>>, <<"relevance">>},
     page      : {<<>>, <<Num(1)>>, <<Num(2)>>, <<Num(3)>>, <<Num(DeepPage)>>},
     page_size : {<<>>, <<Num(1)>>, <<Num(2)>>, <<Num(MAX_PAGE_SIZE)>>}]

NextPartition ==
    Unanswered /\ \E req \in PartitionRequests :
        \E ranking \in Rankings(req) : Search(req, ranking)

SpecPartition == InitQuery /\ [][NextPartition]_vars

\* ------------------------------- the read path over an empty index
\* The index exists and holds no document; the process runs under test or
\* not.
InitEmpty ==
    /\ live \in BOOLEAN
    /\ engineUp = TRUE
    /\ categories = ReadCategoryNames
    /\ nextCategoryId = MaxCategories + 1
    /\ products = <<>>
    /\ nextProductId = 1
    /\ indexExists = TRUE
    /\ index = <<>>
    /\ last = NoOp
    /\ cmd = IdleCmd
    /\ syncFailed = FALSE
    /\ writers = NoWriters
    /\ wait = NoWait
    /\ resp = NoResp

EmptySearches ==
    SearchRequests
        \cup [q         : {<<>>, <<"n1">>},
              category  : {<<>>},
              price_min : {<<>>},
              price_max : {<<>>},
              sort      : {<<>>, <<"price_asc">>},
              page      : {<<Num(DeepPage)>>},
              page_size : {<<>>, <<Num(MAX_PAGE_SIZE)>>}]

NextEmpty ==
    \/ Unanswered /\ \E req \in EmptySearches :
          \E ranking \in Rankings(req) : Search(req, ranking)
    \/ Unanswered /\ \E req \in SuggestRequests :
          \E completions \in
                Completing(index, SuggestQuerySerializer(req).data.q,
                           SuggestQuerySerializer(req).data.size) :
             Suggest(req, completions)

SpecEmpty == InitEmpty /\ [][NextEmpty]_vars

\* ------------------------------------------------------- wait_for_db
max_attempts == 30

\* delay = min(2 ** attempt, 10)
DelayUncapped(attempt) == 2 ^ attempt

Delay(attempt) == IF 2 ^ attempt < 10 THEN 2 ^ attempt ELSE 10

\* What one turn of the loop can meet: the connection is made and closed,
\* psycopg2.connect raises, or conn.close() raises.
ConnectOutcomes == {"ok", "OperationalError", "InterfaceError"}

\* handle() up to the loop: os.environ["DATABASE_URL"] raises KeyError when
\* the variable is not set; else attempt = 1.
WaitBegin(url) ==
    /\ wait.pc = "start"
    /\ wait' = IF url
               THEN [wait EXCEPT !.pc = "connect", !.attempt = 1]
               ELSE [wait EXCEPT !.pc = "raised", !.raised = "KeyError"]
    /\ UNCHANGED <<live, writers, resp, engineUp, store, engine, last, cmd, syncFailed>>

\* One turn of the while loop up to break, raise or time.sleep.
WaitConnect(outcome) ==
    /\ wait.pc = "connect"
    /\ wait.attempt <= max_attempts
    /\ wait' = IF outcome = "ok"
               THEN [wait EXCEPT !.pc = "ready", !.tried = @ + 1]
               ELSE IF wait.attempt >= max_attempts
               THEN [wait EXCEPT !.pc = "raised", !.tried = @ + 1,
                                 !.failed = @ + 1, !.caught = outcome,
                                 !.raised = outcome]
               ELSE [wait EXCEPT !.pc = "sleep", !.tried = @ + 1,
                                 !.failed = @ + 1, !.caught = outcome,
                                 !.delay = Delay(wait.attempt)]
    /\ UNCHANGED <<live, writers, resp, engineUp, store, engine, last, cmd, syncFailed>>

\* time.sleep(delay) returns; attempt += 1.
WaitSleep ==
    /\ wait.pc = "sleep"
    /\ wait' = [wait EXCEPT !.pc = "connect", !.attempt = @ + 1,
                            !.delays = Append(@, wait.delay)]
    /\ UNCHANGED <<live, writers, resp, engineUp, store, engine, last, cmd, syncFailed>>

InitWait ==
    /\ live = TRUE
    /\ engineUp = TRUE
    /\ categories = <<>>
    /\ products = <<>>
    /\ nextCategoryId = 1
    /\ nextProductId = 1
    /\ indexExists = FALSE
    /\ index = <<>>
    /\ last = NoOp
    /\ cmd = IdleCmd
    /\ syncFailed = FALSE
    /\ writers = NoWriters
    /\ wait = [NoWait EXCEPT !.pc = "start"]
    /\ resp = NoResp

NextWait ==
    \/ \E url \in BOOLEAN : WaitBegin(url)
    \/ \E outcome \in ConnectOutcomes : WaitConnect(outcome)
    \/ WaitSleep

\* The command's process runs on: a connection attempt ends within its
\* connect_timeout and a sleep within its delay.
SpecWait == InitWait /\ [][NextWait]_vars /\ WF_vars(NextWait)

\* ================================================================ claims
ProductIds == 1..MaxProducts
CategoryIds == 1..MaxCategories

C2_UpsertFailureNotPropagated ==
    (last.op \in {"product_create", "product_update"} /\ last.engineFailed)
        => (~last.raised /\ last.id \in DOMAIN products)

\* C3: in live mode with the engine reachable, deleting a Product does not
\* raise and leaves the index as it was minus that Product's id, also when
\* the index held no document of that id.
C3_DeleteIsIdempotent ==
    [][\A id \in ProductIds :
         (ProductDelete(id) /\ live /\ engineUp)
            => /\ ~last'.raised
               /\ id \notin DOMAIN products'
               /\ id \notin DOMAIN index'
               /\ index' = Restrict(index, DOMAIN index \ {id})]_vars

\* A Product whose document was absent has been deleted without raising.
C3_Witness ==
    /\ live
    /\ last.op = "product_delete" /\ last.notFound /\ ~last.raised
    /\ last.id \notin DOMAIN products
    /\ DOMAIN index # {}

C5_FanOutToleratesFailure ==
    (live /\ last.op = "category_update")
        => (last.attempted = ProductsOf(products, last.id) /\ ~last.raised)

\* C6: a finished rebuild has attempted every streamed Product, has printed
\* one error per failed upsert, and reports indexed and failed counts that
\* add up to the number of Products streamed; the failed count is printed
\* whenever it is not zero.
C6_RebuildCountsFailures ==
    cmd.pc = "done"
        => /\ Len(cmd.attempts) = cmd.streamed
           /\ {cmd.attempts[i] : i \in DOMAIN cmd.attempts} = DOMAIN products
           /\ cmd.report.indexed + cmd.report.failed = cmd.streamed
           /\ cmd.report.failed = cmd.errors
           /\ cmd.report.noted = (cmd.errors > 0)
           /\ (live => cmd.report.indexed = Cardinality(DOMAIN index))

\* A rebuild has finished in which one upsert failed and another succeeded.
C6_Witness ==
    /\ cmd.pc = "done" /\ live
    /\ cmd.errors = 1
    /\ cmd.report.indexed >= 1
    /\ cmd.report.noted

\* C7: the rebuild calls the engine in the order delete index, create index,
\* upserts; a reachable engine lets the delete pass whether or not the index
\* existed; a finished rebuild has attempted each Product exactly once.
C7_RebuildOrder ==
    [][/\ (CmdDeleteIndex /\ engineUp)
            => (cmd'.pc = "create_index" /\ ~indexExists' /\ index' = <<>>)
       /\ \A i \in DOMAIN cmd'.calls :
             cmd'.calls[i] = (IF i = 1 THEN "delete_index"
                              ELSE IF i = 2 THEN "create_index" ELSE "upsert")
       /\ cmd'.attempts # <<>> => (Len(cmd'.calls) >= 2 /\ indexExists')
       /\ cmd'.pc = "done"
            => /\ Len(cmd'.attempts) = Cardinality(DOMAIN products')
               /\ {cmd'.attempts[i] : i \in DOMAIN cmd'.attempts}
                     = DOMAIN products'
               /\ live => Len(cmd'.calls) = 2 + Len(cmd'.attempts)]_vars

\* A live rebuild that found no index to delete has finished after
\* upserting every one of several Products.
C7_Witness ==
    /\ cmd.pc = "done" /\ live /\ cmd.missing
    /\ Len(cmd.attempts) = MaxProducts
    /\ cmd.errors = 0

\* C8: in non-live mode no engine call is made and the index stays as it
\* was at start (absent and empty).
C8_NonLiveMakesNoEngineCall ==
    ~live => (cmd.calls = <<>> /\ ~indexExists /\ index = <<>>)

\* C9: a valid search or suggest request made while the engine is
\* unreachable is answered with a server error.
C9_UnreachableIsServerError ==
    (resp.op \in {"search", "suggest"} /\ resp.errors = {} /\ ~engineUp)
        => resp.status = 500

\* C9, amended: in live mode, a valid search or suggest request made while
\* the engine is unreachable is answered with a server error and carries
\* no count, results or options.
C9_LiveUnreachableIsServerError ==
    (live /\ resp.op \in {"search", "suggest"} /\ resp.errors = {} /\ ~engineUp)
        => /\ resp.status = 500
           /\ resp.engineQueries = 1
           /\ resp.count = 0 /\ resp.results = <<>> /\ resp.options = <<>>

\* A valid search over an index that holds documents has failed because the
\* engine was unreachable.
C9_Witness ==
    /\ live /\ ~engineUp /\ indexExists /\ index # <<>>
    /\ resp.op = "search" /\ resp.errors = {}
    /\ resp.status = 500

\* The requests the claim lists as failing validation.
InvalidSearch(req) ==
    \/ req.category # <<>>
          /\ \E i \in DOMAIN req.category[1] : req.category[1][i].kind = "word"
    \/ /\ req.price_min # <<>> /\ req.price_max # <<>>
       /\ req.price_min[1].num /\ req.price_max[1].num
       /\ req.price_min[1].v > req.price_max[1].v
    \/ req.page # <<>> /\ (~req.page[1].num \/ req.page[1].v < 1)
    \/ req.page_size # <<>>
          /\ (~req.page_size[1].num \/ req.page_size[1].v < 1
              \/ req.page_size[1].v > 100)

InvalidSuggest(req) ==
    \/ req.q = <<>>
    \/ req.q = <<"">>
    \/ req.size # <<>>
          /\ (~req.size[1].num \/ req.size[1].v < 1 \/ req.size[1].v > 10)

\* C10: a search or suggest request that fails validation is answered 400
\* with the failing fields, and no query or completion lookup reaches the
\* engine for it.
C10_InvalidNeverReachesEngine ==
    /\ (resp.op = "search" /\ InvalidSearch(resp.request))
          => (resp.status = 400 /\ resp.errors # {} /\ resp.engineQueries = 0)
    /\ (resp.op = "suggest" /\ InvalidSuggest(resp.request))
          => (resp.status = 400 /\ resp.errors # {} /\ resp.engineQueries = 0)
    /\ resp.status = 400 => resp.engineQueries = 0

\* In live mode with the engine up, a suggest request with a zero-length
\* text has been rejected.
C10_Witness ==
    /\ live /\ engineUp /\ indexExists
    /\ resp.op = "suggest" /\ resp.request.q = <<"">>
    /\ resp.status = 400 /\ "q" \in resp.errors
    /\ resp.engineQueries = 0

\* C11: every answered search reports has_prev = (window_start > 0) and
\* has_next = (window_start + page_size < count) for window_start =
\* (page - 1) * page_size, with page and page_size as requested (1 and
\* PAGE_SIZE when absent); a live search reports the number of matching
\* documents as count and returns the hits window_start + 1 ..
\* window_start + page_size of the ranking, as far as they exist.
C11_PageWindow ==
    (resp.op = "search" /\ resp.status = 200)
        => LET req == resp.request
               page == IF req.page = <<>> THEN 1 ELSE req.page[1].v
               page_size == IF req.page_size = <<>> THEN PAGE_SIZE
                            ELSE req.page_size[1].v
               window_start == (page - 1) * page_size
               rest == resp.count - window_start
           IN  /\ resp.page = page /\ resp.page_size = page_size
               /\ resp.has_prev = (window_start > 0)
               /\ resp.has_next = (window_start + page_size < resp.count)
               /\ live =>
                    /\ resp.count = Cardinality(DOMAIN index)
                    /\ Len(resp.results) = (IF rest <= 0 THEN 0
                                            ELSE IF rest < page_size THEN rest
                                            ELSE page_size)
                    /\ \A i \in DOMAIN resp.results :
                          resp.results[i] = window_start + i

\* Page 2 of size 5 over 12 matching documents.
C11_Witness ==
    /\ live /\ Cardinality(DOMAIN index) = 12
    /\ resp.op = "search" /\ resp.status = 200
    /\ resp.page = 2 /\ resp.page_size = 5
    /\ resp.has_prev /\ resp.has_next /\ resp.count = 12
    /\ resp.results = <<6, 7, 8, 9, 10>>

\* The ids a response returns.
Hits == {resp.results[i] : i \in DOMAIN resp.results}

\* The documents that pass the category and the price filter of the
\* validated request, prices and bounds being compared as the index holds
\* them.
PassingFilters ==
    {d \in DOMAIN index :
        /\ resp.validated.category # <<>>
              => \E i \in DOMAIN resp.validated.category :
                    index[d].category_id = resp.validated.category[i]
        /\ resp.validated.price_min # <<>>
              => Float32(index[d].price) >= Float32(resp.validated.price_min[1])
        /\ resp.validated.price_max # <<>>
              => Float32(index[d].price) <= Float32(resp.validated.price_max[1])}

\* The same with the prices compared as the store holds them.
PassingFiltersExactly ==
    {d \in DOMAIN index :
        /\ resp.validated.category # <<>>
              => \E i \in DOMAIN resp.validated.category :
                    index[d].category_id = resp.validated.category[i]
        /\ resp.validated.price_min # <<>>
              => index[d].price >= resp.validated.price_min[1]
        /\ resp.validated.price_max # <<>>
              => index[d].price <= resp.validated.price_max[1]}

\* C12: a search without text in the default sort matches exactly the
\* documents that pass the filters and returns them by ascending id; the
\* engine has one possible answer to it, so repeating the query over the
\* same index gives the same ordered result.
C12_EmptyTextIdOrder ==
    (resp.op = "search" /\ resp.status = 200
     /\ resp.validated.q = "" /\ resp.validated.sort = "relevance")
        => /\ resp.count = Cardinality(PassingFilters)
           /\ Hits = PassingFilters
           /\ PassingFiltersExactly \subseteq Hits
           /\ \A i, j \in DOMAIN resp.results :
                 i < j => resp.results[i] < resp.results[j]
           /\ Cardinality(Rankings(resp.request)) = 1

\* Two documents pass a category filter and come back in id order.
C12_Witness ==
    /\ resp.op = "search" /\ resp.status = 200
    /\ resp.validated.q = "" /\ resp.validated.sort = "relevance"
    /\ resp.validated.category = <<1>>
    /\ Cardinality(DOMAIN index) = 2
    /\ index[1].price > index[2].price
    /\ resp.results = <<1, 2>>

\* Both price bounds are given, each a valid price, and price_min is the
\* larger.
PriceBoundsCrossed(req) ==
    /\ req.price_min # <<>> /\ req.price_max # <<>>
    /\ req.price_min[1].num /\ req.price_max[1].num
    /\ req.price_max[1].v >= 0
    /\ req.price_min[1].v > req.price_max[1].v

PriceBoundsEqual(req) ==
    /\ req.price_min # <<>> /\ req.price_max # <<>>
    /\ req.price_min[1].num /\ req.price_max[1].num
    /\ req.price_min[1].v = req.price_max[1].v

\* Every field of the request is valid on its own.
FieldsValid(req) ==
    /\ req.category # <<>>
          => \A i \in DOMAIN req.category[1] : req.category[1][i].kind # "word"
    /\ req.price_min # <<>> => (req.price_min[1].num /\ req.price_min[1].v >= 0)
    /\ req.price_max # <<>> => (req.price_max[1].num /\ req.price_max[1].v >= 0)
    /\ req.sort # <<>> => req.sort[1] \in {"relevance", "price_asc", "price_desc"}
    /\ req.page # <<>> => (req.page[1].num /\ req.page[1].v >= 1)
    /\ req.page_size # <<>>
          => (req.page_size[1].num /\ req.page_size[1].v >= 1
              /\ req.page_size[1].v <= 100)

\* C13: a search request with price_min > price_max is rejected with the
\* error of the price relationship, whatever the other fields hold; equal
\* bounds are accepted.
C13_CrossedBoundsNameRelation ==
    /\ (resp.op = "search" /\ PriceBoundsCrossed(resp.request))
          => (resp.status = 400 /\ "non_field_errors" \in resp.errors)
    /\ (resp.op = "search" /\ PriceBoundsEqual(resp.request)
        /\ FieldsValid(resp.request))
          => resp.status # 400

\* C13, amended: a search request with price_min > price_max is rejected
\* whatever the other fields hold; the error is the one of the price
\* relationship when every field is valid on its own, and names only the
\* invalid fields otherwise; equal bounds are accepted.
C13_CrossedBoundsRejected ==
    /\ (resp.op = "search" /\ PriceBoundsCrossed(resp.request))
          => /\ resp.status = 400
             /\ resp.errors # {}
             /\ resp.engineQueries = 0
             /\ FieldsValid(resp.request)
                   => resp.errors = {"non_field_errors"}
             /\ ~FieldsValid(resp.request)
                   => "non_field_errors" \notin resp.errors
    /\ (resp.op = "search" /\ PriceBoundsEqual(resp.request)
        /\ FieldsValid(resp.request))
          => (resp.status # 400 /\ resp.errors = {})

\* price_min = 20 with price_max = 10 and nothing else wrong has been
\* rejected for the price relationship.
C13_Witness ==
    /\ resp.op = "search" /\ resp.status = 400
    /\ resp.request.price_min = <<Num(20)>>
    /\ resp.request.price_max = <<Num(10)>>
    /\ FieldsValid(resp.request)
    /\ resp.errors = {"non_field_errors"}

\* C14: a category parameter whose tokens are integers or blank validates
\* to the integers in input order (the empty list when there is none, or
\* when the parameter is absent); a parameter with any other token is
\* rejected with an error on the category field.
C14_CategoryParsing ==
    resp.op = "search"
        => LET req  == resp.request
               toks == IF req.category = <<>> THEN <<>> ELSE req.category[1]
               ints == {i \in DOMAIN toks : toks[i].kind = "int"}
               word == \E i \in DOMAIN toks : toks[i].kind \notin {"int", "blank"}
           IN  /\ word => (resp.status = 400 /\ "category" \in resp.errors)
               /\ ~word => "category" \notin resp.errors
               /\ (~word /\ resp.status # 400)
                     => /\ Len(resp.validated.category) = Cardinality(ints)
                        /\ \A k \in 1..Cardinality(ints) :
                              resp.validated.category[k]
                                 = toks[Ascending(ints)[k]].v

\* "2,,1" has validated to the list 2, 1.
C14_Witness ==
    /\ resp.op = "search" /\ resp.status = 200
    /\ resp.request.category = <<<<Tok(2), BlankTok, Tok(1)>>>>
    /\ resp.validated.category = <<2, 1>>

\* The last write was the save of a Product that the engine took.
Indexed ==
    /\ live
    /\ last.op \in {"product_create", "product_update"}
    /\ ~last.engineFailed
    /\ last.id \in DOMAIN products

\* The answered search asked for text alone, and its window holds every
\* match.
TextAloneAllMatches(text) ==
    /\ resp.op = "search" /\ resp.status = 200
    /\ resp.request.q = <<text>>
    /\ resp.request.category = <<>>
    /\ resp.request.price_min = <<>> /\ resp.request.price_max = <<>>
    /\ resp.page = 1 /\ resp.count <= resp.page_size

\* C15: after a Product has been indexed by its create or update in live
\* mode, a search for its exact name, without filter and with a window
\* that holds every match, returns the Product's id.
C15_ExactNameFindsProduct ==
    (Indexed /\ TextAloneAllMatches(products[last.id].name))
        => last.id \in Hits

\* C15, amended: the same for a Product whose name has at least one term
\* (a name of punctuation alone has none, and a search for it matches
\* nothing).
C15_NameWithTermFindsProduct ==
    (Indexed /\ Terms(products[last.id].name) # {}
     /\ TextAloneAllMatches(products[last.id].name))
        => (last.id \in Hits /\ resp.count >= 1)

\* The second of two Products has been renamed and is found by its new
\* name, which the first does not share.
C15_Witness ==
    /\ Indexed /\ last.op = "product_update" /\ last.id = 2
    /\ products[2].name = "n1 n2"
    /\ 1 \in DOMAIN index /\ index[1].name = "--"
    /\ TextAloneAllMatches("n1 n2")
    /\ resp.results = <<2>>

\* C16: after a Product named N has been indexed, its document's suggest
\* entry is N, and a suggest request whose text is a prefix of N, with a
\* size that holds every document, returns N among its options.
C16_SuggestDerivedFromName ==
    (Indexed /\ resp.op = "suggest" /\ resp.status = 200
     /\ resp.q \in Prefixes(products[last.id].name)
     /\ resp.size >= Cardinality(DOMAIN index))
        => /\ index[last.id].suggest = <<products[last.id].name>>
           /\ \E i \in DOMAIN resp.options :
                 resp.options[i] = products[last.id].name

\* C17: a valid suggest request is answered with the engine's completion
\* strings as the engine returned them (same order, repetitions kept, none
\* when the engine returned none), at most size of them, with the
\* request's text and the effective size (the given one, in 1..10, or 5);
\* a size outside 1..10 is rejected.
C17_SuggestEchoesEngine ==
    [][\A req \in SuggestRequests \cap {resp'.request} :
         \A completions \in Completions(MaxOptions) :
         (Suggest(req, completions) /\ (live => EngineAnswers))
            => /\ (req.size # <<>> /\ req.size[1].num
                   /\ (req.size[1].v < 1 \/ req.size[1].v > 10))
                     => (resp'.status = 400 /\ "size" \in resp'.errors)
               /\ ~InvalidSuggest(req)
                     => /\ resp'.status = 200
                        /\ resp'.options = completions
                        /\ Len(resp'.options) <= resp'.size
                        /\ resp'.q = req.q[1]
                        /\ resp'.size = (IF req.size = <<>> THEN 5
                                         ELSE req.size[1].v)
                        /\ resp'.size \in 1..10]_vars

\* The engine returned the same text twice, and both came back.
C17_Witness ==
    /\ live /\ resp.op = "suggest" /\ resp.status = 200
    /\ resp.request = [q |-> <<"n">>, size |-> <<Num(SuggestMaxSize)>>]
    /\ resp.q = "n" /\ resp.size = 10
    /\ resp.options = <<"n2", "n2">>

\* The ids of a validated category list.
CategorySet(ids) == {ids[i] : i \in DOMAIN ids}

\* C18: with a non-empty category list the matches are exactly the
\* documents, among those the rest of the query matches, whose category_id
\* is one of the ids; with an empty list the category restricts nothing;
\* a request that differs only by a category list of the same ids has the
\* same count and the same hits in the same order.
C18_CategorySetSemantics ==
    (resp.op = "search" /\ resp.status = 200)
        => LET ids  == CategorySet(resp.validated.category)
               rest == Matched(index, [resp.validated EXCEPT !.category = <<>>])
           IN  /\ ids # {} => Hits = {d \in rest : index[d].category_id \in ids}
               /\ ids = {} => Hits = rest
               /\ resp.count = Cardinality(Hits)
               /\ \A req \in QueryRequests :
                     (/\ req = [resp.request EXCEPT !.category = req.category]
                      /\ SearchQuerySerializer(req).errors = {}
                      /\ CategorySet(SearchQuerySerializer(req).data.category) = ids)
                        => Rankings(req) = Rankings(resp.request)

\* The list 1,1 has selected the one document of category 1 out of two.
C18_Witness ==
    /\ resp.op = "search" /\ resp.status = 200
    /\ resp.validated.category = <<1, 1>>
    /\ resp.validated.price_min = <<>> /\ resp.validated.price_max = <<>>
    /\ resp.validated.q = ""
    /\ Cardinality(DOMAIN index) = 2
    /\ index[1].category_id = 2 /\ index[2].category_id = 1
    /\ resp.results = <<2>> /\ resp.count = 1

\* C19, amended: the same with each price and each bound taken as the
\* 32-bit float the index holds; no document whose price is within the
\* bounds is left out.
C19_PriceBoundsAsIndexed ==
    (resp.op = "search" /\ resp.status = 200)
        => LET req  == resp.request
               rest == Matched(index, [resp.validated EXCEPT
                                          !.price_min = <<>>, !.price_max = <<>>])
           IN  /\ Hits = {d \in rest :
                            /\ req.price_min # <<>>
                                  => Float32(index[d].price)
                                        >= Float32(req.price_min[1].v)
                            /\ req.price_max # <<>>
                                  => Float32(index[d].price)
                                        <= Float32(req.price_max[1].v)}
               /\ \A d \in rest :
                     (/\ req.price_min # <<>>
                            => index[d].price >= req.price_min[1].v
                      /\ req.price_max # <<>>
                            => index[d].price <= req.price_max[1].v)
                        => d \in Hits
               /\ resp.count = Cardinality(Hits)

\* C19: the matches are exactly the documents, among those the rest of the
\* query matches, whose price is at least the price_min of the request if
\* it has one and at most its price_max if it has one; a bound of 0 is a
\* bound.
C19_PriceBoundsPresent ==
    (resp.op = "search" /\ resp.status = 200)
        => LET req  == resp.request
               rest == Matched(index, [resp.validated EXCEPT
                                          !.price_min = <<>>, !.price_max = <<>>])
           IN  /\ Hits = {d \in rest :
                            /\ req.price_min # <<>>
                                  => index[d].price >= req.price_min[1].v
                            /\ req.price_max # <<>>
                                  => index[d].price <= req.price_max[1].v}
               /\ resp.count = Cardinality(Hits)

\* price_max = 0 alone has excluded every document of a filled index.
C19_Witness ==
    /\ resp.op = "search" /\ resp.status = 200
    /\ resp.request.price_min = <<>> /\ resp.request.price_max = <<Num(0)>>
    /\ resp.request.q = <<>> /\ resp.request.category = <<>>
    /\ Cardinality(DOMAIN index) = 2
    /\ resp.count = 0 /\ resp.results = <<>>

\* C20, amended: the same with the order taken on the prices as the index
\* holds them, 32-bit floats: Products whose prices round to the same float
\* come in either order.
C20_SortModesAsIndexed ==
    (resp.op = "search" /\ resp.status = 200)
        => /\ resp.validated.sort = "price_asc"
                => \A i, j \in DOMAIN resp.results :
                      i < j => Float32(index[resp.results[i]].price)
                                  <= Float32(index[resp.results[j]].price)
           /\ resp.validated.sort = "price_desc"
                => \A i, j \in DOMAIN resp.results :
                      i < j => Float32(index[resp.results[i]].price)
                                  >= Float32(index[resp.results[j]].price)
           /\ (resp.validated.sort = "relevance" /\ resp.validated.q # "")
                => Rankings(resp.request)
                      = Orders(Matched(index, resp.validated))

\* C20: price_asc returns the hits by non-decreasing price and price_desc
\* by non-increasing price, with or without text; relevance with a text
\* sorts nothing: every order of the matches is an answer the engine may
\* give, and the one it gives is returned.
C20_SortModes ==
    (resp.op = "search" /\ resp.status = 200)
        => /\ resp.validated.sort = "price_asc"
                => \A i, j \in DOMAIN resp.results :
                      i < j => index[resp.results[i]].price
                                  <= index[resp.results[j]].price
           /\ resp.validated.sort = "price_desc"
                => \A i, j \in DOMAIN resp.results :
                      i < j => index[resp.results[i]].price
                                  >= index[resp.results[j]].price
           /\ (resp.validated.sort = "relevance" /\ resp.validated.q # "")
                => Rankings(resp.request)
                      = Orders(Matched(index, resp.validated))

\* A search with text in price_desc has returned the dearer document first,
\* against the id order.
C20_Witness ==
    /\ resp.op = "search" /\ resp.status = 200
    /\ resp.validated.sort = "price_desc" /\ resp.validated.q = "n1"
    /\ Cardinality(DOMAIN index) = 2
    /\ Float32(index[1].price) < Float32(index[2].price)
    /\ resp.results = <<2, 1>>

\* C21: a live search answered with 200 is the projection of the engine's
\* answer: count is the number the engine reports as total, whether it came
\* as a number or inside an object; page and page_size are the requested
\* ones (1 and PAGE_SIZE when not given); results has one entry per hit, in
\* the engine's order, with the hit's id, category, names and price, with
\* description and image "" when the hit has none, and with _score None when
\* the hit carries no score or a null one.
C21_FaithfulProjection ==
    (resp.op = "search" /\ resp.status = 200 /\ live) =>
        LET a   == resp.answer
            req == resp.request
        IN  /\ a.total \in {ScalarTotal(resp.count), ObjectTotal(resp.count)}
            /\ resp.page = (IF req.page = <<>> THEN 1 ELSE req.page[1].v)
            /\ resp.page_size = (IF req.page_size = <<>> THEN PAGE_SIZE
                                 ELSE req.page_size[1].v)
            /\ Len(resp.results) = Len(a.hits)
            /\ \A i \in DOMAIN a.hits :
                  LET hit  == a.hits[i]
                      item == resp.results[i]
                  IN  /\ item.id = hit.meta.id
                      /\ item.category = hit.category.id
                      /\ item.category_name = hit.category.name
                      /\ item.name = hit.name
                      /\ item.price = hit.price
                      /\ item.description = (IF "description" \in DOMAIN hit
                                             THEN hit.description ELSE "")
                      /\ item.image = (IF "image" \in DOMAIN hit
                                       THEN hit.image ELSE "")
                      /\ item._score = (IF "score" \in DOMAIN hit.meta
                                        THEN hit.meta.score ELSE None)

\* Two hits in descending id order, the first without description, image
\* and score, under a total reported inside an object.
C21_Witness ==
    /\ resp.op = "search" /\ resp.status = 200 /\ live
    /\ resp.answer.total = ObjectTotal(MaxTotal)
    /\ Len(resp.answer.hits) = 2
    /\ resp.answer.hits[1] = [meta |-> [id |-> "2"],
                              category |-> [id |-> 1, name |-> "c1"],
                              name |-> "n1", price |-> 10]
    /\ resp.answer.hits[2].meta = [id |-> "1", score |-> <<1>>]
    /\ resp.count = MaxTotal
    /\ resp.results[1].description = "" /\ resp.results[1]._score = None
    /\ resp.results[2]._score = <<1>>

\* C22: when the writers of a Product have all finished, each having
\* written the row and sent its own upsert, and no engine call has failed,
\* the Product's document is the projection of the row as it is now stored.
C22_WritersConverge ==
    (live /\ ~syncFailed /\ \A w \in Writers : writers[w].pc = "done") =>
        \A id \in DOMAIN products :
            id \in DOMAIN index /\ index[id] = Prepare(products[id], categories)

\* C23: when a rebuild that ran among creates, updates and deletes of
\* Products has completed, no write is in flight and no engine call has
\* failed, the index holds exactly one document per stored Product, the
\* projection of its row, and none for a deleted Product.
C23_RebuildConverges ==
    (live /\ ~syncFailed /\ cmd.pc = "done"
          /\ \A w \in Writers : writers[w].pc # "saved") =>
        /\ DOMAIN index = DOMAIN products
        /\ \A id \in DOMAIN products : index[id] = Prepare(products[id], categories)

\* C24: every stored Product has a price above zero, and so has every
\* document of the index, whatever writes came before.
C24_StoredPricesPositive ==
    /\ \A id \in DOMAIN products : products[id].price > 0
    /\ \A id \in DOMAIN index : index[id].price > 0

\* The answer to a write without credentials: refused, nothing stored,
\* nothing indexed.
Refused == resp'.status = 401 /\ UNCHANGED <<store, engine>>

\* C25: a create, update or delete of a Category or a Product sent without
\* credentials is answered 401 and changes neither the store nor the index;
\* a list, a detail read, a search and a suggest sent without credentials
\* are answered as they are with credentials, 200 for a list, for a row that
\* exists and for a valid search or suggest the engine can answer.
C25_WritesNeedCredentials ==
    [][/\ \A n \in ApiCategoryNames : CategoryViewSetCreate(FALSE, n) => Refused
       /\ \A c \in CategoryIds, n \in ApiCategoryNames :
             \A order \in Orders(ProductsOf(products, c)) :
                CategoryViewSetUpdate(FALSE, c, n, order, {}) => Refused
       /\ \A c \in CategoryIds : CategoryViewSetDestroy(FALSE, c) => Refused
       /\ \A c \in CategoryIds, n \in ProductNames, pr \in ApiPrices :
             ProductViewSetCreate(FALSE, c, n, pr, TRUE) => Refused
       /\ \A id \in ProductIds, c \in CategoryIds, n \in ProductNames,
             pr \in ApiPrices :
                ProductViewSetUpdate(FALSE, id, c, n, pr, TRUE) => Refused
       /\ \A id \in ProductIds : ProductViewSetDestroy(FALSE, id) => Refused
       /\ CategoryViewSetList(FALSE) => resp'.status = 200
       /\ ProductViewSetList(FALSE) => resp'.status = 200
       /\ \A c \in DOMAIN categories :
             CategoryViewSetRetrieve(FALSE, c) => resp'.status = 200
       /\ \A id \in DOMAIN products :
             ProductViewSetRetrieve(FALSE, id) => resp'.status = 200
       /\ \A req \in ApiSearches : \A ranking \in Rankings(req) :
             SearchEndpoint(FALSE, req, ranking) =>
                /\ resp'.op = "search"
                /\ resp'.status = (IF InvalidSearch(req) THEN 400
                                   ELSE IF live /\ ~EngineAnswers THEN 500 ELSE 200)
       /\ \A req \in ApiSuggests : \A completions \in Completions(MaxOptions) :
             SuggestEndpoint(FALSE, req, completions) =>
                /\ resp'.op = "suggest"
                /\ resp'.status = (IF InvalidSuggest(req) THEN 400
                                   ELSE IF live /\ ~EngineAnswers THEN 500 ELSE 200)
      ]_vars

\* A Product create without credentials has been refused while a Product
\* is stored and indexed.
C25_Witness ==
    /\ resp.op = "product_create" /\ resp.status = 401
    /\ resp.request = [method |-> "POST", authenticated |-> FALSE]
    /\ products # <<>> /\ index # <<>>

\* C26: a create or an update of a Category is answered 400 on name exactly
\* when a Category other than the one written holds the requested name;
\* otherwise it is carried out, and the names of the stored Categories stay
\* pairwise different.
C26_NameTakenByAnotherOnly ==
    [][/\ \A n \in ApiCategoryNames :
             CategoryViewSetCreate(TRUE, n) =>
                (resp'.status = 400 <=> \E d \in DOMAIN categories : categories[d] = n)
       /\ \A c \in DOMAIN categories, n \in ApiCategoryNames :
             \A order \in Orders(ProductsOf(products, c)) :
                CategoryViewSetUpdate(TRUE, c, n, order, {}) =>
                   (resp'.status = 400
                       <=> \E d \in DOMAIN categories \ {c} : categories[d] = n)
       /\ \A c, d \in DOMAIN categories' :
             categories'[c] = categories'[d] => c = d
      ]_vars

\* C27: a live search without free text in the default sort is answered,
\* whatever the page, with the total of the documents that pass its filters
\* and with the hits window_start + 1 .. window_start + page_size of these
\* documents in ascending id order, as far as they exist; so the pages 1, 2,
\* ... of one page_size are disjoint, leave no document out, and are empty
\* past the end.  has_next says that documents remain after the page.
C27_PagesPartitionMatches ==
    (resp.op = "search" /\ live
     /\ resp.validated.q = "" /\ resp.validated.sort = "relevance")
        => LET asc   == Ascending(PassingFilters)
               count == Cardinality(PassingFilters)
               size  == resp.validated.page_size
               start == (resp.validated.page - 1) * size
               n     == IF count - start <= 0 THEN 0
                        ELSE IF count - start < size THEN count - start
                        ELSE size
           IN  /\ resp.status = 200
               /\ resp.count = count
               /\ resp.results = [i \in 1..n |-> asc[start + i]]
               /\ resp.has_next = (start + size < count)

\* C28: over an index without documents, with the engine answering, a
\* request gets the same status and body whether the process runs under
\* test or not: 400 with the failing fields when it fails validation; else
\* for a search 200 with count 0, the requested page and page_size, has_next
\* false, has_prev = (page > 1) and no results, and for a suggest 200 with
\* q, no options and the effective size.
C28_StubAsLiveOverEmptyIndex ==
    /\ resp.op = "search" =>
          LET v == SearchQuerySerializer(resp.request)
          IN  IF v.errors # {}
              THEN resp.status = 400 /\ resp.errors = v.errors
              ELSE /\ resp.status = 200
                   /\ resp.count = 0
                   /\ resp.page = v.data.page
                   /\ resp.page_size = v.data.page_size
                   /\ ~resp.has_next
                   /\ resp.has_prev = (v.data.page > 1)
                   /\ resp.results = <<>>
    /\ resp.op = "suggest" =>
          LET v == SuggestQuerySerializer(resp.request)
          IN  IF v.errors # {}
              THEN resp.status = 400 /\ resp.errors = v.errors
              ELSE /\ resp.status = 200
                   /\ resp.q = v.data.q
                   /\ resp.options = <<>>
                   /\ resp.size = v.data.size

====
